---- MODULE Spec2Model ----
(***************************************************************************)
(* FileZap: the sender session (startFileServer), its per-connection       *)
(* WebSocket protocol handler, the receiver (receiveFile) with its local   *)
(* destination naming, and the Serveo tunnel manager.                      *)
(*                                                                         *)
(* The specifications of the module:                                       *)
(*   Spec        a sender session started by startFileServer(path,         *)
(*               options) and its client connections                       *)
(*   CliSpec     the same session started by the `send` command, serving   *)
(*               its first client connection                               *)
(*   PathSpec    the `send` command given a file, a name of nothing or a   *)
(*               directory                                                 *)
(*   SimpleSpec  a session of the sender of src/src/server.js              *)
(*   RecvSpec    receiver processes writing into one shared directory      *)
(*   RecvLiveSpec  the receivers with connections that can be lost, under  *)
(*               fair scheduling of their handlers and timers              *)
(*   TunnelSpec  the tunnel manager (active map, ssh map, registry file)   *)
(*   RegistrySpec  processes that read and write active_tunnels.json       *)
(*               through the functions of src/utils/tunnelManager.js       *)
(***************************************************************************)
EXTENDS Integers, Sequences, FiniteSets, TLC

\* ------------------------------------------------------------------ bounds
MaxConns == 2        \* client connections a session accepts in a run
MaxReady == 2        \* `ready` frames the clients of a run send in all
MaxTicks == 1        \* clock ticks of a run
MaxPings == 2        \* pings a connection is sent in a run
MaxRecv == 2         \* receive operations of a run
MaxPrompts == 1      \* password prompts a run answers
MaxTunnels == 2      \* tunnel URLs the manager's process brings up
MaxCalls == 2        \* closeAllTunnels calls in progress at a time

\* --------------------------------------------------------------- JS values
\* A JavaScript value as far as the option handling needs it: undefined,
\* null, a boolean or a string.
JSUndef == [t |-> "undefined", b |-> FALSE, s |-> ""]
JSNull == [t |-> "null", b |-> FALSE, s |-> ""]
JSBool(x) == [t |-> "boolean", b |-> x, s |-> ""]
JSStr(x) == [t |-> "string", b |-> FALSE, s |-> x]

\* ToBoolean
Truthy(v) == \/ (v.t = "boolean" /\ v.b)
             \/ (v.t = "string" /\ v.s # "")

\* a || b
JSOr(a, b) == IF Truthy(a) THEN a ELSE b

\* a === b
StrictEq(a, b) == a = b

\* The password the operator may give on the command line, a password a
\* client may try instead, and what generateRandomPassword returns.
CliPassword == "pw"
WrongPassword == "bad"
GeneratedPasswords == {"G7K2QX"}

VARIABLES
    options,        \* the options object handed to startFileServer
    pc,             \* "cli" | "start" | "tunnelWait" | "serving" | "exited"
    usePassword,    \* part_000:80
    password,       \* part_000:81
    ngrokUrl,       \* part_000:75, the session's public endpoint
    tunnelOutcome,  \* how the Promise.race of part_000:946 settled
    tunnelPromise,  \* tunnelManager.createTunnel's promise
    wssOpen,        \* the WebSocket listener is listening
    connHandler,    \* wss.on('connection') is registered
    serverTimeout,  \* part_000:86, the handle of the inactivity timer
    timers,         \* pending inactivity timers: [id, deadline]
    now,            \* the clock, in ms
    exitCode,       \* process.exit's code, -1 while running
    conn,           \* the client connections
    simple,         \* the sender of src/src/server.js:12-79
    ports,          \* part_000:194-196 and 945: wsPort, httpPort, the tunnel's target
    debugLog,       \* what logDebug has appended to debug.log
    sharedPath,     \* what the path to share names: "file" | "missing" | "directory"
    http,           \* the HTTP server: two sessions, a request, their responses
    \* --- the receivers (src/src/server.js:123 and src/src/client.js:9)
    srcContent,     \* the bytes of the file the sender shares
    sessFileSize,   \* part_000:191, fileSize: the size read when the session started
    sessPw,         \* the password the sender's session requires, or null
    dir,            \* the receiver's userDir: path -> bytes, or NoFile
    rcv,            \* the receive operations
    \* --- the tunnel manager (part_001)
    activeTunnels,  \* this.activeTunnels, the URLs that are its keys
    sshProcesses,   \* this.sshProcesses, the URLs that are its keys
    registry,       \* the tunnels array of active_tunnels.json
    liveSsh,        \* the ssh processes to serveo.net alive on the machine
    tmCall,         \* the closeAllTunnels calls waiting for pkill
    lastCall,       \* the call that returned last, and what it returned
    created,        \* url -> state of the createServeoTunnel promise
    attempt,        \* url -> the createServeoTunnel call serveo answers with it
    \* --- the ngrok tunnel registry (src/utils/tunnelManager.js)
    infoFile,       \* active_tunnels.json as the file system holds it
    mgr,            \* the processes that call the registry's functions
    ngrokUp         \* an ngrok process is running on the machine

senderVars == <<options, pc, usePassword, password, ngrokUrl, tunnelOutcome,
                tunnelPromise, wssOpen, connHandler, serverTimeout,
                timers, now, exitCode, conn, simple, ports, sharedPath, debugLog,
                http>>

recvVars == <<srcContent, sessFileSize, sessPw, dir, rcv>>

tunnelVars == <<activeTunnels, sshProcesses, registry, liveSsh, tmCall,
                lastCall, created, attempt>>

ngrokVars == <<infoFile, mgr, ngrokUp>>

vars == <<senderVars, recvVars, tunnelVars, ngrokVars>>

Conns == 1..MaxConns

\* 30 * 60 * 1000, the inactivity timeout in ms
INACTIVITY_TIMEOUT == 30 * 60 * 1000
\* the clock advances in steps of half an hour
TICK == INACTIVITY_TIMEOUT

NoTimer == 0

\* ------------------------------------------------------------ the CLI
\* commander gives options.password as a string or undefined, and the
\* flags as true or undefined.
CliOptions == [password : {JSUndef, JSStr(CliPassword)},
               secure : {JSUndef, JSBool(TRUE)},
               debug : {JSUndef, JSBool(TRUE)},
               tunnel : {JSUndef, JSBool(TRUE)}]

NoOptions == [passwordProtect |-> JSUndef, password |-> JSUndef,
              debug |-> JSUndef, forceTunnel |-> JSUndef]

freshConn == [st |-> "none", handled |-> FALSE, metaSent |-> 0, errSent |-> 0,
              binSent |-> 0, payloadTimers |-> 0, closeTimers |-> 0,
              transferComplete |-> FALSE, keepAlive |-> "none", pings |-> 0]

\* The options objects a caller of startFileServer passes: no protection,
\* or protection with a password.
ApiOptions ==
    {[passwordProtect |-> JSBool(FALSE), password |-> JSNull,
      debug |-> JSBool(FALSE), forceTunnel |-> JSBool(FALSE)],
     [passwordProtect |-> JSBool(TRUE), password |-> JSStr(CliPassword),
      debug |-> JSBool(FALSE), forceTunnel |-> JSBool(FALSE)]}

\* part_000:65: const isDebug = options.debug === true
IsDebug(o) == StrictEq(o.debug, JSBool(TRUE))

\* part_002:34-47: logDebug(...args) in debug mode appends to debug.log the
\* JSON.stringify of every argument that is an object, with all its fields;
\* out of debug mode it writes nothing.
LogDebug(isDebugMode, log, arg) ==
    IF isDebugMode THEN log \cup {arg} ELSE log

\* The ports of a session: none is taken before part_000:194.
\* `busy` are the ports other processes of the machine hold, `step` is how
\* far the selection and the binding have come, wsBind and httpBind are
\* what binding gave.
NoPorts == [ws |-> 0, http |-> 0, tunnel |-> 0, busy |-> {}, step |-> "none",
            wsBind |-> "none", httpBind |-> "none"]

PortRange == 1..3

\* get-port: the preferred port if one is given (0: none) and it is free,
\* else a free port; a port it has just handed out counts as taken.
GetPort(preferred, taken) ==
    IF preferred # 0 /\ preferred \notin taken THEN preferred
    ELSE CHOOSE q \in PortRange \ taken : \A r \in PortRange \ taken : q <= r

\* src/src/server.js:12-79, the sender without options: its state before
\* startFileServer has run. `sent` is what ws.send was given on the
\* connection, in order; `exitTimers` counts the pending 1 s timers of
\* line 53 that the connection's handler has set; `got` is how many of the
\* frames sent have reached the peer.
freshSimpleConn == [st |-> "none", sent |-> <<>>, got |-> 0, exitTimers |-> 0]

SimpleInit ==
    [pc |-> "start", wssOpen |-> FALSE, exitCode |-> -1,
     conn |-> [c \in Conns |-> freshSimpleConn]]

\* No HTTP server is looked at.
NoHttp == [a |-> JSNull, b |-> JSNull, req |-> JSNull, respA |-> JSNull,
           respB |-> JSNull, correctGiven |-> FALSE]

SenderInit(startPc, opts, paths) ==
    /\ options \in opts
    /\ sharedPath \in paths
    /\ pc = startPc
    /\ usePassword = FALSE
    /\ password = JSNull
    /\ ngrokUrl = JSNull
    /\ tunnelOutcome = "none"
    /\ tunnelPromise = "none"
    /\ wssOpen = FALSE
    /\ connHandler = FALSE
    /\ serverTimeout = NoTimer
    /\ timers = {}
    /\ now = 0
    /\ exitCode = -1
    /\ conn = [c \in Conns |-> freshConn]
    /\ simple = SimpleInit
    /\ ports = NoPorts
    /\ debugLog = {}
    /\ http = NoHttp

\* The first free timer handle: setTimeout returns a handle no pending
\* timer has.
FreshTimerId(ts) ==
    CHOOSE i \in 1..(Cardinality(ts) + 1) : \A t \in ts : t.id # i

\* setTimeout(..., 30 * 60 * 1000) at time `at`
NewInactivityTimer(ts, at) ==
    [id |-> FreshTimerId(ts), deadline |-> at + INACTIVITY_TIMEOUT]

\* clearTimeout(handle)
ClearTimeout(ts, handle) == {t \in ts : t.id # handle}

\* ------------------------------------------------------- send <filepath>
\* commands.js:87-98: the options object the send command builds.
SendOptions(o) ==
    [passwordProtect |-> JSOr(JSOr(o.password, o.secure), JSBool(FALSE)),
     password |-> JSOr(o.password, JSNull),
     debug |-> JSOr(o.debug, JSBool(FALSE)),
     forceTunnel |-> JSOr(o.tunnel, JSBool(FALSE))]

SendCommand ==
    /\ pc = "cli"
    /\ IF sharedPath = "missing"
       THEN \* commands.js:81-85: "File not found", process.exit(1)
            /\ pc' = "exited"
            /\ exitCode' = 1
            /\ options' = options
       ELSE /\ \E o \in CliOptions : options' = SendOptions(o)
            /\ pc' = "start"
            /\ exitCode' = exitCode
    /\ UNCHANGED <<http, ngrokVars, recvVars, debugLog, sharedPath, simple, ports, tunnelVars, usePassword, password,
                   ngrokUrl, tunnelOutcome, tunnelPromise, wssOpen, connHandler,
                   serverTimeout, timers, now, conn>>

\* part_000:80
UsePassword(o) == StrictEq(o.passwordProtect, JSBool(TRUE))

\* part_000:81
SessionPassword(o, generated) ==
    IF UsePassword(o) THEN JSOr(o.password, JSStr(generated)) ELSE JSNull

\* The tunnel urls of the model, and a url that a session of another process
\* left in active_tunnels.json.
Urls == 1..MaxTunnels
StaleUrl == MaxTunnels + 1
AllUrls == Urls \cup {StaleUrl}

\* Array.prototype.includes and Array.prototype.filter(t => t !== url)
Includes(tunnels, url) == \E i \in 1..Len(tunnels) : tunnels[i] = url

Without(tunnels, url) == SelectSeq(tunnels, LAMBDA t : t # url)

\* The deletion as it would be if the entry stayed in the map.
MapDelete_Keeps(map, url) == map

\* part_001:293 and 298: Map.prototype.delete
MapDelete(map, url) == map \ {url}

\* closeTunnel as it would be if it left the registry file alone.
CloseTunnelState_KeepsRegistry(st, url) ==
    [active |-> MapDelete(st.active, url),
     ssh |-> IF url \in st.ssh THEN MapDelete(st.ssh, url) ELSE st.ssh,
     live |-> IF url \in st.ssh THEN st.live \ {url} ELSE st.live,
     reg |-> st.reg,
     success |-> TRUE]

\* part_001:285-310: closeTunnel(url) as a function of the manager's state:
\* the process is killed if the manager has it, the url leaves the active
\* set and the registry, and the call returns true. Nothing in the try block
\* throws: kill() reports failure by its return value, and loadTunnelInfo
\* and saveTunnelInfo catch their own errors.
CloseTunnelState(st, url) ==
    [active |-> MapDelete(st.active, url),
     ssh |-> IF url \in st.ssh THEN MapDelete(st.ssh, url) ELSE st.ssh,
     live |-> IF url \in st.ssh THEN st.live \ {url} ELSE st.live,
     reg |-> Without(st.reg, url),
     success |-> TRUE]

ManagerState ==
    [active |-> activeTunnels, ssh |-> sshProcesses, live |-> liveSsh,
     reg |-> registry, success |-> TRUE]

\* The url serveo announces for the tunnel of this session.
SessionUrl == CHOOSE u \in Urls : \A v \in Urls : u <= v

\* part_001:319-323
NoResults == [closed |-> 0, failed |-> 0, errors |-> <<>>]

\* What a call of the manager returned, with what the model remembers about
\* it: whether a tunnel was registered while it ran (quiet), and the call
\* that had returned last when it was made (after, before), and the
\* registry as the call of closeExistingTunnels found it (found).
NoCall == [op |-> "none", url |-> StaleUrl, success |-> TRUE,
           results |-> NoResults, quiet |-> TRUE, after |-> "none",
           before |-> NoResults, found |-> <<>>]

\* part_001:326-338: the loop over the entries of activeTunnels. The awaits
\* in it wait for nothing outside the process, so no event is handled
\* between its iterations.
RECURSIVE CloseEach(_, _, _)
CloseEach(st, todo, results) ==
    IF todo = {} THEN [st |-> st, results |-> results]
    ELSE LET url == CHOOSE u \in todo : \A v \in todo : u <= v
             next == CloseTunnelState(st, url)
         IN CloseEach(next, todo \ {url},
                      IF next.success
                      THEN [results EXCEPT !.closed = @ + 1]
                      ELSE [results EXCEPT !.failed = @ + 1])

\* A url another sender session, live on the same machine, has registered.
OtherUrl == MaxTunnels + 2

\* The cleanup as it would be if it left the machine as it found it.
CloseExistingTunnels_LeavesAll(st) == st

\* part_000:42-61 with part_001:316-355: closeExistingTunnels() awaits
\* closeAllTunnels(): every tunnel of the manager's map is closed, pkill
\* ends every ssh process to serveo.net on the machine, and the registry is
\* saved as [].
CloseExistingTunnels(st) ==
    LET done == CloseEach(st, st.active, NoResults).st
    IN [done EXCEPT !.live = {}, !.reg = <<>>]

\* part_000:119-127 and 1310-1316: `if (ngrokUrl) await
\* tunnelManager.closeTunnel(ngrokUrl)`: the tunnel is closed when the
\* session holds its url, and is left alone when it does not.
CleanupManager(st, url) ==
    IF Truthy(url) THEN CloseTunnelState(st, SessionUrl) ELSE st

CloseSessionTunnelFrom(before) ==
    LET st == CleanupManager(before, ngrokUrl)
    IN /\ activeTunnels' = st.active
       /\ sshProcesses' = st.ssh
       /\ liveSsh' = st.live
       /\ registry' = st.reg
       /\ UNCHANGED <<tmCall, lastCall, created>>

CloseSessionTunnel == CloseSessionTunnelFrom(ManagerState)

\* part_000:63-246 and 932-945: the password set-up, the cleanup of the
\* tunnels that exist (line 169), the WebSocket listener (wss, line 245),
\* then the tunnel request raced against a 30 s timer; the request spawns
\* ssh (part_001:104-138).
StartFileServer ==
    /\ pc = "start"
    /\ sharedPath # "missing"
    /\ usePassword' = UsePassword(options)
    /\ \E g \in GeneratedPasswords : password' = SessionPassword(options, g)
    /\ wssOpen' = TRUE
    /\ tunnelPromise' = "pending"
    /\ pc' = "tunnelWait"
    /\ created' = [created EXCEPT ![SessionUrl] = "pending"]
    /\ LET wsPort == GetPort(0, {})
           httpPort == GetPort(wsPort + 1, {wsPort})
       IN ports' = [ports EXCEPT !.ws = wsPort, !.http = httpPort,
                                 !.tunnel = httpPort]
    /\ debugLog' = LogDebug(IsDebug(options), debugLog, options)
    /\ LET cleaned == CloseExistingTunnels(ManagerState)
       IN /\ activeTunnels' = cleaned.active
          /\ sshProcesses' = cleaned.ssh
          /\ registry' = cleaned.reg
          /\ liveSsh' = cleaned.live \cup {SessionUrl}
    /\ lastCall' = [NoCall EXCEPT !.op = "closeAllTunnels",
                                  !.after = lastCall.op,
                                  !.before = lastCall.results,
                                  !.found = registry]
    /\ UNCHANGED <<attempt, http, ngrokVars, recvVars, sharedPath, simple, tmCall,
                   options, ngrokUrl, tunnelOutcome, connHandler,
                   serverTimeout, timers, now, exitCode, conn>>

TunnelUrl == JSStr("https://cpd.serveo.net")

\* The catch block as it would read if it rethrew the error.
TunnelErrorFallsThrough_Rethrows(force) == FALSE

\* part_000:961-970: what the catch block of the tunnel request does with
\* the error: it logs, and with options.forceTunnel logs two more lines;
\* either way control falls through to the rest of startFileServer.
TunnelErrorFallsThrough(force) == IF Truthy(force) THEN TRUE ELSE TRUE

\* part_000:1179-1202: arm the inactivity timer and register the
\* connection handler.
EnterServing ==
    /\ LET t == NewInactivityTimer(timers, now)
       IN /\ timers' = timers \cup {t}
          /\ serverTimeout' = t.id
    /\ connHandler' = TRUE
    /\ pc' = "serving"
    /\ UNCHANGED <<wssOpen, exitCode, conn>>

\* part_000:1306-1327: the outer catch of startFileServer.
FatalExit ==
    /\ pc' = "exited"
    /\ exitCode' = 1
    /\ wssOpen' = FALSE
    /\ conn' = [c \in Conns |->
                  IF conn[c].st = "open" THEN [conn[c] EXCEPT !.st = "closed"]
                  ELSE conn[c]]
    /\ UNCHANGED <<timers, serverTimeout, connHandler>>

\* part_000:946-970: the race settles with `outcome`.
AfterRace(outcome) ==
    /\ tunnelOutcome' = outcome
    /\ ngrokUrl' = IF outcome = "ok" THEN TunnelUrl ELSE ngrokUrl
    /\ IF outcome = "ok" \/ TunnelErrorFallsThrough(options.forceTunnel)
       THEN EnterServing
       ELSE FatalExit

\* tunnelManager.createTunnel's promise resolves, with success or with
\* {success: false} (part_001:72-96 never rejects). On success the manager
\* has registered the process and the url (part_001:141-170); on failure
\* ssh is gone (part_001:132-138 and 245-258). The manager does this
\* whether or not the sender is still waiting for the promise.
TunnelSettles(r) ==
    /\ tunnelPromise = "pending"
    /\ pc # "exited"
    /\ tunnelPromise' = r
    /\ IF r = "ok"
       THEN /\ created' = [created EXCEPT ![SessionUrl] = "resolved"]
            /\ sshProcesses' = sshProcesses \cup {SessionUrl}
            /\ activeTunnels' = activeTunnels \cup {SessionUrl}
            /\ registry' = IF Includes(registry, SessionUrl) THEN registry
                           ELSE Append(registry, SessionUrl)
            /\ UNCHANGED liveSsh
       ELSE /\ created' = [created EXCEPT ![SessionUrl] = "rejected"]
            /\ liveSsh' = liveSsh \ {SessionUrl}
            /\ UNCHANGED <<sshProcesses, activeTunnels, registry>>
    /\ IF pc = "tunnelWait"
       THEN AfterRace(r)
       ELSE UNCHANGED <<tunnelOutcome, ngrokUrl, timers, serverTimeout,
                        connHandler, pc, wssOpen, exitCode, conn>>
    /\ UNCHANGED <<attempt, http, ngrokVars, recvVars, debugLog, sharedPath, simple, ports, tmCall, lastCall, options, usePassword, password, now>>

\* part_000:941-943: the 30 s timer fires and rejects timeoutPromise. The
\* timer is pending from line 942 on; once the race has settled its firing
\* changes nothing.
TunnelTimeout ==
    /\ pc = "tunnelWait"
    /\ AfterRace("timeout")
    /\ UNCHANGED <<http, ngrokVars, recvVars, debugLog, sharedPath, simple, ports, tunnelVars, options, usePassword, password, tunnelPromise, now>>

\* ------------------------------------------------------ inbound frames
\* What JSON.parse(message.toString()) makes of a frame, as far as the
\* handler reads it: whether it parses, whether the value is null (reading
\* .type of null throws), its type and its password field.
Frame(parses, isNull, type, pw) ==
    [parses |-> parses, isNull |-> isNull, type |-> type, password |-> pw]

ReadyPasswords ==
    {JSUndef, JSNull, JSStr(CliPassword), JSStr(WrongPassword)}
        \cup {JSStr(g) : g \in GeneratedPasswords}

ReadyFrames == {Frame(TRUE, FALSE, "ready", p) : p \in ReadyPasswords}
ReceivedFrame == Frame(TRUE, FALSE, "received", JSUndef)
PongFrame == Frame(TRUE, FALSE, "pong", JSUndef)
UnknownFrame == Frame(TRUE, FALSE, "hello", JSUndef)
NullFrame == Frame(TRUE, TRUE, "", JSUndef)
GarbageFrame == Frame(FALSE, FALSE, "", JSUndef)

\* The frames the handler acts on, and all the frames of the model: the
\* handler leaves the session as it is on the others.
ActedOnFrames == ReadyFrames \cup {ReceivedFrame}

ClientFrames ==
    ActedOnFrames \cup {PongFrame, UnknownFrame, NullFrame, GarbageFrame}

\* The check as it would read if a `ready` with no password were let through.
PasswordRejected_AbsentAccepted(m) ==
    /\ usePassword
    /\ m.type = "ready"
    /\ Truthy(m.password)
    /\ ~StrictEq(m.password, password)

\* part_000:1216-1217: the frame is a `ready` the password check rejects.
PasswordRejected(m) ==
    usePassword /\ m.type = "ready" /\ ~StrictEq(m.password, password)

\* part_000:1247: the condition under which a frame is taken as the
\* acknowledgment of a completed transfer.
AcceptsReceived(c, m) == m.type = "received"

\* The reset as it would read without the clearTimeout.
ResetServerTimeout_NoClear ==
    LET t == NewInactivityTimer(timers, now)
    IN /\ timers' = timers \cup {t}
       /\ serverTimeout' = t.id

\* part_000:1256-1261: clearTimeout(serverTimeout), then a new timer.
ResetServerTimeout ==
    LET cleared == ClearTimeout(timers, serverTimeout)
        t == NewInactivityTimer(cleared, now)
    IN /\ timers' = cleared \cup {t}
       /\ serverTimeout' = t.id

\* The handler as it would be if `ready` armed the payload timer without
\* sending the metadata frame.
OnMessage_NoMetadata(c, m) ==
    IF ~m.parses \/ m.isNull
    THEN UNCHANGED <<conn, timers, serverTimeout>>
    ELSE IF PasswordRejected(m)
    THEN /\ conn' = [conn EXCEPT ![c].errSent = @ + 1,
                                 ![c].closeTimers = @ + 1]
         /\ UNCHANGED <<timers, serverTimeout>>
    ELSE IF m.type = "ready"
    THEN /\ conn' = [conn EXCEPT ![c].payloadTimers = @ + 1]
         /\ UNCHANGED <<timers, serverTimeout>>
    ELSE IF AcceptsReceived(c, m)
    THEN /\ conn' = [conn EXCEPT ![c].transferComplete = TRUE]
         /\ ResetServerTimeout
    ELSE UNCHANGED <<conn, timers, serverTimeout>>

\* part_000:1211-1274: ws.on('message') of connection c with frame m.
OnMessage(c, m) ==
    IF ~m.parses \/ m.isNull
    THEN \* JSON.parse or data.type threw: "Invalid JSON, ignore"
         UNCHANGED <<conn, timers, serverTimeout>>
    ELSE IF PasswordRejected(m)
    THEN /\ conn' = [conn EXCEPT ![c].errSent = @ + 1,
                                 ![c].closeTimers = @ + 1]
         /\ UNCHANGED <<timers, serverTimeout>>
    ELSE IF m.type = "ready"
    THEN /\ conn' = [conn EXCEPT ![c].metaSent = @ + 1,
                                 ![c].payloadTimers = @ + 1]
         /\ UNCHANGED <<timers, serverTimeout>>
    ELSE IF AcceptsReceived(c, m)
    THEN /\ conn' = [conn EXCEPT ![c].transferComplete = TRUE]
         /\ ResetServerTimeout
    ELSE UNCHANGED <<conn, timers, serverTimeout>>

\* The number of `ready` frames answered so far on the connections cs.
RECURSIVE ReadyCount(_)
ReadyCount(cs) ==
    IF cs = {} THEN 0
    ELSE LET c == CHOOSE x \in cs : TRUE
         IN conn[c].metaSent + conn[c].errSent + ReadyCount(cs \ {c})

\* The listener accepts a connection; the handler of part_000:1202 runs for
\* it only if it is registered by then. The connections are numbered in the
\* order they are accepted.
Accept(c) ==
    /\ pc \in {"tunnelWait", "serving"}
    /\ wssOpen
    /\ conn[c].st = "none"
    /\ \A d \in Conns : d < c => conn[d].st # "none"
    /\ conn' = [conn EXCEPT ![c].st = "open", ![c].handled = connHandler,
                              ![c].keepAlive = IF connHandler THEN "set"
                                               ELSE "none"]
    /\ UNCHANGED <<http, ngrokVars, recvVars, debugLog, sharedPath, simple, ports, tunnelVars, options, pc, usePassword, password, ngrokUrl,
                   tunnelOutcome, tunnelPromise, wssOpen,
                   connHandler, serverTimeout, timers, now, exitCode>>

\* `filezap get <url> <fileName>` (commander/commands.js:130-143) calls
\* receiveFile(url, 80, ...), which opens ws://<host of url>:80
\* (src/src/server.js:154-165); serveo forwards that to the port the tunnel
\* was created for (part_000:945). If that port is the WebSocket
\* listener's, the connection is accepted as any other; if it is the HTTP
\* server's, the upgrade request is answered as a page request and no
\* WebSocket connection comes about.
GetConnects(c) ==
    /\ pc = "serving"
    /\ Truthy(ngrokUrl)
    /\ SessionUrl \in liveSsh
    /\ conn[c].st = "none"
    /\ \A d \in Conns : d < c => conn[d].st # "none"
    /\ conn' = IF ports.tunnel = ports.ws /\ wssOpen
               THEN [conn EXCEPT ![c].st = "open", ![c].handled = connHandler,
                              ![c].keepAlive = IF connHandler THEN "set"
                                               ELSE "none"]
               ELSE [conn EXCEPT ![c].st = "httpAnswered"]
    /\ UNCHANGED <<http, ngrokVars, recvVars, debugLog, sharedPath, simple, ports, tunnelVars, options, pc, usePassword,
                   password, ngrokUrl, tunnelOutcome, tunnelPromise, wssOpen,
                   connHandler, serverTimeout, timers, now, exitCode>>

\* A client sends frame m on connection c.
ClientSends(c, m) ==
    /\ pc # "exited"
    /\ conn[c].st = "open"
    /\ conn[c].handled
    /\ m.type = "ready" => ReadyCount(Conns) < MaxReady
    /\ OnMessage(c, m)
    /\ UNCHANGED <<http, ngrokVars, recvVars, debugLog, sharedPath, simple, ports, tunnelVars, options, pc, usePassword, password, ngrokUrl,
                   tunnelOutcome, tunnelPromise, wssOpen,
                   connHandler, now, exitCode>>

\* The process ends without running any handler of the session: its
\* listener and connections go with it and no timer of it will fire. The
\* tunnel manager is not called, so its maps and active_tunnels.json stay
\* as they are; `sshLeft` is what is left of the ssh children.
ProcessEnds(code, sshLeft) ==
    /\ pc' = "exited"
    /\ exitCode' = code
    /\ wssOpen' = FALSE
    /\ timers' = {}
    /\ conn' = [c \in Conns |->
                  IF conn[c].st = "open" THEN [conn[c] EXCEPT !.st = "closed"]
                  ELSE conn[c]]
    /\ liveSsh' = sshLeft
    /\ UNCHANGED <<attempt, http, ngrokVars, recvVars, debugLog, sharedPath, simple, ports, activeTunnels, sshProcesses, registry, tmCall, lastCall,
                   created, options, usePassword, password, ngrokUrl, tunnelOutcome,
                   tunnelPromise, connHandler, serverTimeout, now>>

\* The timer callback as it would be if the payloads were sent one
\* connection after the other, in the order the connections were accepted.
PayloadTimer_Serialized(c) ==
    /\ pc # "exited"
    /\ conn[c].payloadTimers > 0
    /\ \A d \in Conns : d < c => conn[d].payloadTimers = 0
    /\ IF sharedPath = "directory"
       THEN ProcessEnds(1, liveSsh)
       ELSE /\ conn' = [conn EXCEPT ![c].payloadTimers = @ - 1,
                                    ![c].binSent = IF conn[c].st = "open"
                                                   THEN @ + 1 ELSE @]
            /\ UNCHANGED <<http, ngrokVars, recvVars, debugLog, sharedPath, simple, ports, tunnelVars, options, pc,
                           usePassword, password, ngrokUrl, tunnelOutcome,
                           tunnelPromise, wssOpen, connHandler, serverTimeout,
                           timers, now, exitCode>>

\* part_000:1240-1243: the 500 ms timer fires: read the file and send it as
\* one binary frame (a send on a socket that is no longer open sends
\* nothing). fs.readFileSync of a directory throws; nothing catches what a
\* timer callback throws, and the process ends with 1.
PayloadTimer(c) ==
    /\ pc # "exited"
    /\ conn[c].payloadTimers > 0
    /\ IF sharedPath = "directory"
       THEN ProcessEnds(1, liveSsh)
       ELSE /\ conn' = [conn EXCEPT ![c].payloadTimers = @ - 1,
                                    ![c].binSent = IF conn[c].st = "open"
                                                   THEN @ + 1 ELSE @]
            /\ UNCHANGED <<http, ngrokVars, recvVars, debugLog, sharedPath, simple, ports, tunnelVars, options, pc,
                           usePassword, password, ngrokUrl, tunnelOutcome,
                           tunnelPromise, wssOpen, connHandler, serverTimeout,
                           timers, now, exitCode>>

\* part_000:1222: the 1 s timer fires: ws.close().
CloseTimer(c) ==
    /\ pc # "exited"
    /\ conn[c].closeTimers > 0
    /\ conn' = [conn EXCEPT ![c].closeTimers = @ - 1, ![c].st = "closed"]
    /\ UNCHANGED <<http, ngrokVars, recvVars, debugLog, sharedPath, simple, ports, tunnelVars, options, pc, usePassword, password, ngrokUrl,
                   tunnelOutcome, tunnelPromise, wssOpen,
                   connHandler, serverTimeout, timers, now, exitCode>>

\* The keep-alive as it would be if the callback sent without looking at
\* the state of the socket.
KeepAliveTick_NoCheck(c) ==
    /\ pc # "exited"
    /\ conn[c].keepAlive = "set"
    /\ conn[c].pings < MaxPings
    /\ conn' = [conn EXCEPT ![c].pings = @ + 1]
    /\ UNCHANGED <<http, ngrokVars, recvVars, debugLog, sharedPath, simple, ports, tunnelVars, options, pc, usePassword, password, ngrokUrl,
                   tunnelOutcome, tunnelPromise, wssOpen,
                   connHandler, serverTimeout, timers, now, exitCode>>

\* part_000:1290-1297: the 30 s interval the connection handler sets fires:
\* a ping goes out if the socket is open, otherwise the interval clears
\* itself. The interval lives as long as the process.
KeepAliveTick(c) ==
    /\ pc # "exited"
    /\ conn[c].keepAlive = "set"
    /\ conn[c].st = "open" => conn[c].pings < MaxPings
    /\ conn' = IF conn[c].st = "open"
               THEN [conn EXCEPT ![c].pings = @ + 1]
               ELSE [conn EXCEPT ![c].keepAlive = "cleared"]
    /\ UNCHANGED <<http, ngrokVars, recvVars, debugLog, sharedPath, simple, ports, tunnelVars, options, pc, usePassword, password, ngrokUrl,
                   tunnelOutcome, tunnelPromise, wssOpen,
                   connHandler, serverTimeout, timers, now, exitCode>>

\* The peer closes the connection (part_000:1284, ws.on('close')).
ClientCloses(c) ==
    /\ pc # "exited"
    /\ conn[c].st = "open"
    /\ conn' = [conn EXCEPT ![c].st = "closed"]
    /\ UNCHANGED <<http, ngrokVars, recvVars, debugLog, sharedPath, simple, ports, tunnelVars, options, pc, usePassword, password, ngrokUrl,
                   tunnelOutcome, tunnelPromise, wssOpen,
                   connHandler, serverTimeout, timers, now, exitCode>>

\* part_000:115-164: cleanupAndExit(code): close the tunnel, the listener
\* and the HTTP server, clear the inactivity timer, exit.
CleanupAndExitFrom(code, before) ==
    /\ ngrokUrl' = ngrokUrl
    /\ wssOpen' = FALSE
    /\ timers' = ClearTimeout(timers, serverTimeout)
    /\ exitCode' = code
    /\ pc' = "exited"
    /\ conn' = [c \in Conns |->
                  IF conn[c].st = "open" THEN [conn[c] EXCEPT !.st = "closed"]
                  ELSE conn[c]]
    /\ CloseSessionTunnelFrom(before)
    /\ UNCHANGED <<attempt, http, ngrokVars, recvVars, debugLog, sharedPath, simple, ports, options, usePassword, password, tunnelOutcome,
                   tunnelPromise, connHandler, serverTimeout, now>>

CleanupAndExit(code) == CleanupAndExitFrom(code, ManagerState)

\* part_000:1180-1184 (and 1258-1261): an inactivity timer fires.
InactivityFires ==
    /\ pc = "serving"
    /\ \E t \in timers :
        /\ now >= t.deadline
        /\ ngrokUrl' = ngrokUrl
        /\ wssOpen' = FALSE
        /\ timers' = ClearTimeout(timers \ {t}, serverTimeout)
        /\ exitCode' = 0
        /\ pc' = "exited"
        /\ conn' = [c \in Conns |->
                      IF conn[c].st = "open"
                      THEN [conn[c] EXCEPT !.st = "closed"] ELSE conn[c]]
    /\ CloseSessionTunnel
    /\ UNCHANGED <<attempt, http, ngrokVars, recvVars, debugLog, sharedPath, simple, ports, options, usePassword, password, tunnelOutcome,
                   tunnelPromise, connHandler, serverTimeout, now>>

\* part_000:166-187: the existing tunnels are closed (line 169), then the
\* path does not name an existing file: `return await cleanupAndExit(1)`,
\* before any port is taken.
FileNotFound ==
    /\ pc = "start"
    /\ sharedPath = "missing"
    /\ CleanupAndExitFrom(1, CloseExistingTunnels(ManagerState))

\* part_000:1187-1192: SIGINT.
Sigint ==
    /\ pc = "serving"
    /\ CleanupAndExit(0)

\* bin/filezap.js:26-35 and 104-107: in an interactive terminal stdin is in
\* raw mode, so Ctrl+C arrives as a keypress and not as a signal, and the
\* keypress handler calls process.exit(0). The ssh child was spawned with
\* its own pipes (part_001:123-125) and is not ended by the exit of its
\* parent.
CtrlC ==
    /\ pc \in {"tunnelWait", "serving"}
    /\ ProcessEnds(0, liveSsh)

\* part_000:1187: the SIGINT handler is registered after the wait on the
\* tunnel. A SIGINT that arrives during the wait has the default
\* disposition and ends the process (status 128 + 2); ssh ends with it if
\* the signal went to the whole process group and stays if it did not.
SigintDefault ==
    /\ pc = "tunnelWait"
    /\ \E sshLeft \in {liveSsh, liveSsh \ {SessionUrl}} : ProcessEnds(130, sshLeft)

\* Time passes (the clock matters from line 1180 on, where the first
\* deadline is set). A timer that is due fires before the clock moves on,
\* and the tunnel request has settled before a TICK has passed: it gives up
\* after two attempts of 20 s (part_001:72-96 and 132-138).
Tick ==
    /\ pc = "serving"
    /\ tunnelPromise # "pending"
    /\ now < MaxTicks * TICK
    /\ \A t \in timers : now < t.deadline
    /\ now' = now + TICK
    /\ UNCHANGED <<http, ngrokVars, recvVars, debugLog, sharedPath, simple, ports, tunnelVars, options, pc, usePassword, password, ngrokUrl,
                   tunnelOutcome, tunnelPromise, wssOpen,
                   connHandler, serverTimeout, timers, exitCode, conn>>

\* The session as its clients see it once the tunnel is up: they connect to
\* the address the sender prints then (part_000:978-1051). The sessions
\* whose tunnel fails or times out are those of CliSpec.
SenderNext ==
    \/ StartFileServer
    \/ TunnelSettles("ok")
    \/ \E c \in Conns : pc = "serving" /\ Accept(c)
    \/ \E c \in Conns, m \in ActedOnFrames : ClientSends(c, m)
    \/ \E c \in Conns : PayloadTimer(c)
    \/ \E c \in Conns : CloseTimer(c)
    \/ \E c \in Conns : ClientCloses(c)
    \/ FileNotFound
    \/ InactivityFires
    \/ Sigint
    \/ CtrlC
    \/ SigintDefault
    \/ Tick

\* ================================================================ receiver
Procs == 1..MaxRecv

NoFile == "<no file>"

\* What a file that is in the directory before the run holds.
OldContent == "old"

\* The file contents of the model: the empty file, plain bytes, and texts
\* that JSON.parse accepts.
PingText == "{\"type\":\"ping\"}"
InvalidPasswordText == "{\"type\":\"error\",\"message\":\"Invalid password\"}"
MetadataText(size) == "{\"type\":\"metadata\",\"fileSize\":" \o ToString(size) \o "}"

OtherErrorText == "{\"type\":\"error\",\"message\":\"File is gone\"}"

Contents == {"", "abc", "{}", "null", InvalidPasswordText, OtherErrorText}

MaxContentLen == CHOOSE n \in 0..64 : \A c \in Contents : Len(c) <= n

\* JSON.parse(data.toString()) on the frames of the model: whether the text
\* parses, whether it parses to null, and the type, message and fileSize
\* properties of the value.
Parsed(ok, isNull, type, message, fileSize) ==
    [ok |-> ok, isNull |-> isNull, type |-> type, message |-> message,
     fileSize |-> fileSize]

JSONParse(text) ==
    IF text = PingText THEN Parsed(TRUE, FALSE, "ping", "", 0)
    ELSE IF text = InvalidPasswordText
    THEN Parsed(TRUE, FALSE, "error", "Invalid password", 0)
    ELSE IF text = OtherErrorText
    THEN Parsed(TRUE, FALSE, "error", "File is gone", 0)
    ELSE IF \E n \in 0..MaxContentLen : text = MetadataText(n)
    THEN Parsed(TRUE, FALSE, "metadata", "",
                CHOOSE n \in 0..MaxContentLen : text = MetadataText(n))
    ELSE IF text = "null" THEN Parsed(TRUE, TRUE, "", "", 0)
    ELSE IF text = "{}" THEN Parsed(TRUE, FALSE, "", "", 0)
    ELSE Parsed(FALSE, FALSE, "", "", 0)

\* File names as sequences of characters.
FileName == <<"r", ".", "p">>

Last(S) == CHOOSE x \in S : \A y \in S : y <= x

\* path.extname: from the last "." of the name on, unless the name has none
\* or only a leading one.
ExtName(name) ==
    LET dots == {i \in 2..Len(name) : name[i] = "."}
    IN IF dots = {} THEN <<>> ELSE SubSeq(name, Last(dots), Len(name))

\* path.basename(name, ext): the name without the suffix ext.
BaseName(name, ext) ==
    IF /\ ext # <<>>
       /\ Len(name) > Len(ext)
       /\ SubSeq(name, Len(name) - Len(ext) + 1, Len(name)) = ext
    THEN SubSeq(name, 1, Len(name) - Len(ext))
    ELSE name

\* `${counter}`
RECURSIVE Digits(_)
Digits(n) ==
    IF n < 10 THEN <<ToString(n)>>
    ELSE Digits(n \div 10) \o <<ToString(n % 10)>>

\* src/src/server.js:138-140: `${baseName}_${counter}${ext}`
Candidate(filePath, counter) ==
    LET ext == ExtName(filePath)
    IN BaseName(filePath, ext) \o <<"_">> \o Digits(counter) \o ext

\* The paths of the directory the model follows: a run creates at most one
\* file per receive operation, beside the two it may start with.
AllPaths == {FileName} \cup {Candidate(FileName, n) : n \in 1..(MaxRecv + 2)}

\* fs.existsSync
ExistsSync(d, path) == path \in DOMAIN d /\ d[path] # NoFile

\* src/src/server.js:135-142: the loop that looks for a free name.
RECURSIVE UniqueNameLoop(_, _, _, _)
UniqueNameLoop(d, filePath, finalFilePath, counter) ==
    IF ExistsSync(d, finalFilePath)
    THEN UniqueNameLoop(d, filePath, Candidate(filePath, counter), counter + 1)
    ELSE finalFilePath

\* The destination a receive operation settles on when it starts:
\* src/src/server.js:132-142 looks for a free name, src/src/client.js:18
\* takes path.join(userDir, fileName) as it is.
Destination(impl, d, filePath) ==
    IF impl = "server.js" THEN UniqueNameLoop(d, filePath, filePath, 1)
    ELSE filePath

Impls == {"server.js", "client.js"}

idleRcv == [pc |-> "idle", impl |-> "server.js", password |-> JSNull,
            finalFilePath |-> <<>>, existed |-> {}, totalSize |-> 0,
            chan |-> <<>>, peer |-> "none", prompts |-> 0,
            connectionTimeout |-> "none"]

\* The receive operations have not started; the directory holds some of the
\* names already. The machine has one of the two receiveFile functions wired
\* to its `receive` command.
RecvInit ==
    /\ srcContent \in Contents
    /\ sessFileSize = Len(srcContent)
    /\ sessPw \in {JSNull, JSStr(CliPassword)}
    /\ \E taken \in SUBSET {FileName, Candidate(FileName, 1)} :
          dir = [f \in AllPaths |-> IF f \in taken THEN OldContent ELSE NoFile]
    /\ \E impl \in Impls : rcv = [p \in Procs |-> [idleRcv EXCEPT !.impl = impl]]

RecvIdle ==
    /\ srcContent = ""
    /\ sessFileSize = 0
    /\ sessPw = JSNull
    /\ dir = [f \in AllPaths |-> NoFile]
    /\ rcv = [p \in Procs |-> idleRcv]

\* receiveFile(serverIp, serverPort, fileName, password) is called
\* (src/src/server.js:123-172, src/src/client.js:9-21): the destination is
\* settled and the connection requested.
Invoke(p, impl, pw) ==
    rcv' = [rcv EXCEPT ![p] =
              [@ EXCEPT !.pc = "connecting",
                        !.impl = impl,
                        !.password = pw,
                        !.finalFilePath = Destination(impl, dir, FileName),
                        !.existed = {f \in AllPaths : ExistsSync(dir, f)},
                        !.totalSize = 0,
                        !.chan = <<>>,
                        !.peer = "none",
                        !.connectionTimeout =
                            IF impl = "server.js" THEN "pending" ELSE "none"]]

\* The `receive` command: the password option is a string or absent, and
\* src/src/client.js:9 has no parameter for it. The operations are numbered
\* in the order they start.
StartReceive(p, pw) ==
    /\ rcv[p].pc = "idle"
    /\ \A q \in Procs : q < p => rcv[q].pc # "idle"
    /\ rcv[p].impl = "client.js" => pw = JSNull
    /\ Invoke(p, rcv[p].impl, pw)
    /\ UNCHANGED <<ngrokVars, senderVars, tunnelVars, srcContent, sessFileSize, sessPw, dir>>

\* The opening as it would be if the open handler left the timer alone.
Open_KeepsTimeout(p) ==
    /\ rcv[p].pc = "connecting"
    /\ IF rcv[p].impl = "client.js"
       THEN rcv' = [rcv EXCEPT ![p].pc = "open",
                               ![p].peer = "streamed",
                               ![p].chan = <<MetadataText(sessFileSize),
                                             srcContent>>]
       ELSE IF sessPw # JSNull /\ ~StrictEq(rcv[p].password, sessPw)
       THEN rcv' = [rcv EXCEPT ![p].pc = "open",
                               ![p].peer = "rejected",
                               ![p].chan = <<InvalidPasswordText>>]
       ELSE rcv' = [rcv EXCEPT ![p].pc = "open",
                               ![p].peer = "metadataSent",
                               ![p].chan = <<MetadataText(sessFileSize)>>]
    /\ UNCHANGED <<ngrokVars, senderVars, tunnelVars, srcContent, sessFileSize, sessPw, dir>>


\* The connection opens. src/src/server.js:174-184 sends `ready` with the
\* password, and the sender of part_000:1211-1244 answers it: the error
\* frame if its password check fails, else the metadata frame, with the
\* payload to follow. src/src/client.js:23-25 sends nothing; its sender,
\* src/src/server.js:35-47, sends metadata and payload as soon as the
\* connection is made.
Open(p) ==
    /\ rcv[p].pc = "connecting"
    /\ IF rcv[p].impl = "client.js"
       THEN rcv' = [rcv EXCEPT ![p].pc = "open",
                               ![p].connectionTimeout = "none",
                               ![p].peer = "streamed",
                               ![p].chan = <<MetadataText(sessFileSize),
                                             srcContent>>]
       ELSE IF sessPw # JSNull /\ ~StrictEq(rcv[p].password, sessPw)
       THEN rcv' = [rcv EXCEPT ![p].pc = "open",
                               ![p].connectionTimeout = "none",
                               ![p].peer = "rejected",
                               ![p].chan = <<InvalidPasswordText>>]
       ELSE rcv' = [rcv EXCEPT ![p].pc = "open",
                               ![p].connectionTimeout = "none",
                               ![p].peer = "metadataSent",
                               ![p].chan = <<MetadataText(sessFileSize)>>]
    /\ UNCHANGED <<ngrokVars, senderVars, tunnelVars, srcContent, sessFileSize, sessPw, dir>>

\* part_000:1240-1243: the sender's 500 ms timer fires: it reads the file
\* and sends its bytes as one binary frame. Frames arrive in the order they
\* were sent, so the receiver has handled the metadata frame by the time it
\* handles this one.
SenderStreams(p) ==
    /\ rcv[p].peer = "metadataSent"
    /\ rcv[p].pc = "open"
    /\ rcv[p].chan = <<>>
    /\ rcv' = [rcv EXCEPT ![p].peer = "streamed",
                          ![p].chan = Append(@, srcContent)]
    /\ UNCHANGED <<ngrokVars, senderVars, tunnelVars, srcContent, sessFileSize, sessPw, dir>>

\* The test as it would read if every frame but a ping were the file.
IsFileContent_NotPing(m) == m.type # "ping"

\* The frame is taken as the file: JSON.parse threw, or reading .type of the
\* parsed value did (src/src/server.js:231, src/src/client.js:35).
IsFileContent(m) == ~m.ok \/ m.isNull

\* src/src/server.js:191-271 and src/src/client.js:27-47: ws.on('message')
\* with the next frame of the connection.
Deliver(p) ==
    /\ rcv[p].pc \in {"open", "prompting", "acked"}
    /\ rcv[p].chan # <<>>
    /\ LET data == Head(rcv[p].chan)
           m == JSONParse(data)
           rest == [rcv[p] EXCEPT !.chan = Tail(@)]
       IN IF IsFileContent(m)
          THEN \* fs.writeFileSync(finalFilePath, data), then `received`
               /\ dir' = [dir EXCEPT ![rcv[p].finalFilePath] = data]
               /\ rcv' = [rcv EXCEPT ![p] = [rest EXCEPT !.pc = "acked"]]
          ELSE IF m.type = "metadata"
          THEN /\ rcv' = [rcv EXCEPT ![p] =
                            IF rcv[p].impl = "server.js"
                            THEN [rest EXCEPT !.totalSize = m.fileSize]
                            ELSE rest]
               /\ dir' = dir
          ELSE IF m.type = "error" /\ rcv[p].impl = "server.js"
          THEN /\ rcv' = [rcv EXCEPT ![p] =
                            [rest EXCEPT !.pc =
                               IF rcv[p].pc = "acked" THEN "acked"
                               ELSE IF m.message = "Invalid password"
                               THEN "prompting" ELSE "failed"]]
               /\ dir' = dir
          ELSE \* `ping` is answered with `pong`; anything else is dropped
               /\ rcv' = [rcv EXCEPT ![p] = rest]
               /\ dir' = dir
    /\ UNCHANGED <<ngrokVars, senderVars, tunnelVars, srcContent, sessFileSize, sessPw>>

RECURSIVE PromptCount(_)
PromptCount(S) ==
    IF S = {} THEN 0
    ELSE LET p == CHOOSE q \in S : TRUE
         IN rcv[p].prompts + PromptCount(S \ {p})

\* The answer to the prompt as it would be if the reconnection went out
\* with the password of the first attempt.
PromptAnswered_OldPassword(p, entered) ==
    /\ rcv[p].pc = "prompting"
    /\ PromptCount(Procs) < MaxPrompts
    /\ rcv' = [rcv EXCEPT ![p].pc = "retryWait",
                          ![p].prompts = @ + 1,
                          ![p].chan = <<>>]
    /\ UNCHANGED <<ngrokVars, senderVars, tunnelVars, srcContent, sessFileSize, sessPw, dir>>

\* src/src/server.js:212-219: the prompt is answered; the connection is
\* closed and receiveFile is to be called again in 1 s.
PromptAnswered(p, entered) ==
    /\ rcv[p].pc = "prompting"
    /\ PromptCount(Procs) < MaxPrompts
    /\ rcv' = [rcv EXCEPT ![p].pc = "retryWait",
                          ![p].password = JSStr(entered),
                          ![p].prompts = @ + 1,
                          ![p].chan = <<>>]
    /\ UNCHANGED <<ngrokVars, senderVars, tunnelVars, srcContent, sessFileSize, sessPw, dir>>

\* src/src/server.js:217-219: receiveFile(serverIp, serverPort, fileName,
\* enteredPassword).
Reinvoke(p) ==
    /\ rcv[p].pc = "retryWait"
    /\ Invoke(p, rcv[p].impl, rcv[p].password)
    /\ UNCHANGED <<ngrokVars, senderVars, tunnelVars, srcContent, sessFileSize, sessPw, dir>>

\* src/src/server.js:266-269, src/src/client.js:42-45: 1 s after the
\* acknowledgment the receiver closes the connection and exits.
ReceiverExits(p) ==
    /\ rcv[p].pc = "acked"
    /\ rcv' = [rcv EXCEPT ![p] = [idleRcv EXCEPT !.pc = "done",
                                                  !.impl = rcv[p].impl,
                                                  !.prompts = rcv[p].prompts]]
    /\ UNCHANGED <<ngrokVars, senderVars, tunnelVars, srcContent, sessFileSize, sessPw, dir>>

\* The sender closes the connection, or goes away, after it has sent the
\* metadata and before its payload timer has fired. Neither receiveFile
\* registers a handler for 'close' (src/src/server.js:165-283,
\* src/src/client.js:21-52), and the connection timeout was cleared when the
\* connection opened (src/src/server.js:175), so nothing runs in the
\* receiver.
PeerCloses(p) ==
    /\ rcv[p].pc = "open"
    /\ rcv[p].peer = "metadataSent"
    /\ rcv' = [rcv EXCEPT ![p].peer = "closed"]
    /\ UNCHANGED <<ngrokVars, senderVars, tunnelVars, srcContent, sessFileSize, sessPw, dir>>

\* src/src/server.js:273-283 and src/src/client.js:49-52: ws.on('error'):
\* the socket reports an error while connecting or connected, and the
\* receiver exits with 1.
ConnectionError(p) ==
    /\ rcv[p].pc \in {"connecting", "open"}
    /\ rcv[p].peer # "closed"
    /\ rcv' = [rcv EXCEPT ![p].pc = "failed", ![p].chan = <<>>,
                          ![p].connectionTimeout = "none"]
    /\ UNCHANGED <<ngrokVars, senderVars, tunnelVars, srcContent, sessFileSize, sessPw, dir>>

\* The file the session shares is rewritten while the session is up, with
\* bytes of another length (once in a run): part_000:1241 reads the file
\* anew for every payload.
FileChanges ==
    /\ Len(srcContent) = sessFileSize
    /\ \E c \in Contents : Len(c) # sessFileSize /\ srcContent' = c
    /\ UNCHANGED <<ngrokVars, senderVars, tunnelVars, sessFileSize, sessPw, dir, rcv>>

\* src/src/server.js:168-172: the 10 s timer set when the connection was
\* requested fires: ws.terminate() and process.exit(1).
ConnectionTimeout(p) ==
    /\ rcv[p].connectionTimeout = "pending"
    /\ rcv[p].pc \notin {"idle", "done", "failed"}
    /\ rcv' = [rcv EXCEPT ![p].pc = "failed", ![p].chan = <<>>,
                          ![p].connectionTimeout = "fired"]
    /\ UNCHANGED <<ngrokVars, senderVars, tunnelVars, srcContent, sessFileSize, sessPw, dir>>

RecvNext ==
    \/ \E p \in Procs, pw \in {JSNull, JSStr(CliPassword)} : StartReceive(p, pw)
    \/ \E p \in Procs : Open(p)
    \/ \E p \in Procs : SenderStreams(p)
    \/ \E p \in Procs : Deliver(p)
    \/ \E p \in Procs, entered \in {CliPassword, WrongPassword} :
          PromptAnswered(p, entered)
    \/ \E p \in Procs : Reinvoke(p)
    \/ \E p \in Procs : ReceiverExits(p)

\* ======================================== the sender of src/src/server.js
\* The process is gone: the listener and every connection go with it.
SimpleExit(code) ==
    [simple EXCEPT !.pc = "exited", !.wssOpen = FALSE, !.exitCode = code,
                   !.conn = [c \in Conns |->
                               IF simple.conn[c].st = "open"
                               THEN [simple.conn[c] EXCEPT !.st = "closed"]
                               ELSE simple.conn[c]]]

\* src/src/server.js:12-33 and 75-78: statSync and readFileSync of the
\* path, then the listener; if the path cannot be read the catch block
\* exits with 1.
SimpleStart ==
    /\ simple.pc = "start"
    /\ \E readable \in BOOLEAN :
         simple' = IF readable
                   THEN [simple EXCEPT !.pc = "listening", !.wssOpen = TRUE]
                   ELSE SimpleExit(1)
    /\ UNCHANGED <<http, ngrokVars, recvVars, debugLog, sharedPath, ports, tunnelVars, options, pc, usePassword, password, ngrokUrl,
                   tunnelOutcome, tunnelPromise, wssOpen, connHandler, serverTimeout,
                   timers, now, exitCode, conn>>

\* src/src/server.js:35-47: a client connects: the metadata frame and then
\* the file's bytes are sent at once. The connections are numbered in the
\* order they are accepted.
SimpleConnect(c) ==
    /\ simple.pc = "listening"
    /\ simple.wssOpen
    /\ simple.conn[c].st = "none"
    /\ \A d \in Conns : d < c => simple.conn[d].st # "none"
    /\ simple' = [simple EXCEPT !.conn[c].st = "open",
                                !.conn[c].sent = <<"metadata", "binary">>]
    /\ UNCHANGED <<http, ngrokVars, recvVars, debugLog, sharedPath, ports, tunnelVars, options, pc, usePassword, password, ngrokUrl,
                   tunnelOutcome, tunnelPromise, wssOpen, connHandler, serverTimeout,
                   timers, now, exitCode, conn>>

\* The next frame handed to ws.send on connection c reaches the peer.
SimpleDelivers(c) ==
    /\ simple.pc = "listening"
    /\ simple.conn[c].st = "open"
    /\ simple.conn[c].got < Len(simple.conn[c].sent)
    /\ simple' = [simple EXCEPT !.conn[c].got = @ + 1]
    /\ UNCHANGED <<http, ngrokVars, recvVars, debugLog, sharedPath, ports, tunnelVars, options, pc, usePassword, password, ngrokUrl,
                   tunnelOutcome, tunnelPromise, wssOpen, connHandler, serverTimeout,
                   timers, now, exitCode, conn>>

\* The 1 s timers of line 53 pending on all connections.
RECURSIVE SimpleExitTimers(_)
SimpleExitTimers(cs) ==
    IF cs = {} THEN 0
    ELSE LET c == CHOOSE x \in cs : TRUE
         IN simple.conn[c].exitTimers + SimpleExitTimers(cs \ {c})

\* src/src/server.js:49-58: ws.on('message'): JSON.parse is not guarded, so
\* a frame that does not parse, or parses to null, throws out of the
\* handler and the uncaught exception ends the process with 1. A
\* `received` sets the 1 s timer; any other frame is ignored.
SimpleMessage(c, m) ==
    /\ simple.pc = "listening"
    /\ simple.conn[c].st = "open"
    /\ m.type = "received" => SimpleExitTimers(Conns) < MaxReady
    /\ simple' = IF ~m.parses \/ m.isNull
                 THEN SimpleExit(1)
                 ELSE IF m.type = "received"
                 THEN [simple EXCEPT !.conn[c].exitTimers = @ + 1]
                 ELSE simple
    /\ UNCHANGED <<http, ngrokVars, recvVars, debugLog, sharedPath, ports, tunnelVars, options, pc, usePassword, password, ngrokUrl,
                   tunnelOutcome, tunnelPromise, wssOpen, connHandler, serverTimeout,
                   timers, now, exitCode, conn>>

\* src/src/server.js:53-56: the 1 s timer fires: wss.close() and
\* process.exit(0).
SimpleExitTimer(c) ==
    /\ simple.pc = "listening"
    /\ simple.conn[c].exitTimers > 0
    /\ simple' = SimpleExit(0)
    /\ UNCHANGED <<http, ngrokVars, recvVars, debugLog, sharedPath, ports, tunnelVars, options, pc, usePassword, password, ngrokUrl,
                   tunnelOutcome, tunnelPromise, wssOpen, connHandler, serverTimeout,
                   timers, now, exitCode, conn>>

\* src/src/server.js:60-63: ws.on('error') of connection c: wss.close().
\* The socket that had the error is closed by the library.
SimpleError(c) ==
    /\ simple.pc = "listening"
    /\ simple.conn[c].st = "open"
    /\ simple' = [simple EXCEPT !.wssOpen = FALSE, !.conn[c].st = "closed"]
    /\ UNCHANGED <<http, ngrokVars, recvVars, debugLog, sharedPath, ports, tunnelVars, options, pc, usePassword, password, ngrokUrl,
                   tunnelOutcome, tunnelPromise, wssOpen, connHandler, serverTimeout,
                   timers, now, exitCode, conn>>

\* The peer closes connection c; the sender has no handler for it.
SimpleClientCloses(c) ==
    /\ simple.pc = "listening"
    /\ simple.conn[c].st = "open"
    /\ simple' = [simple EXCEPT !.conn[c].st = "closed"]
    /\ UNCHANGED <<http, ngrokVars, recvVars, debugLog, sharedPath, ports, tunnelVars, options, pc, usePassword, password, ngrokUrl,
                   tunnelOutcome, tunnelPromise, wssOpen, connHandler, serverTimeout,
                   timers, now, exitCode, conn>>

\* The frames a client of this sender sends: the acknowledgement, a keep-
\* alive answer, and the frames that do not parse to an object.
SimpleFrames == {ReceivedFrame, PongFrame, NullFrame, GarbageFrame}

SimpleNext ==
    \/ SimpleStart
    \/ \E c \in Conns : SimpleConnect(c)
    \/ \E c \in Conns : SimpleDelivers(c)
    \/ \E c \in Conns, m \in SimpleFrames : SimpleMessage(c, m)
    \/ \E c \in Conns : SimpleExitTimer(c)
    \/ \E c \in Conns : SimpleError(c)
    \/ \E c \in Conns : SimpleClientCloses(c)

\* ========================================================== tunnel manager
\* part_001:62-65: the manager is constructed with no tunnel; the registry
\* file holds what earlier sessions left.
\* A createServeoTunnel call that has not been made. `st` is the state of
\* its promise as its callers see it and `why` the cause of a rejection;
\* `resolved` is the flag of part_001:130 and `timer` the 20 s timer of
\* line 133; `ssh` is the child process; `stdout` and `stderr` are its
\* pipes, "inPipe" when ssh has written the url and the data event is to
\* come; `regs` counts the registrations the call has made.
idleAttempt == [st |-> "none", why |-> "none", resolved |-> FALSE,
                timer |-> FALSE, ssh |-> "none", stdout |-> "quiet",
                stderr |-> "quiet", regs |-> 0]

TunnelInit ==
    /\ activeTunnels = {}
    /\ sshProcesses = {}
    /\ registry \in {<<>>, <<StaleUrl>>}
    /\ liveSsh = {}
    /\ tmCall = <<>>
    /\ lastCall = NoCall
    /\ created = [u \in Urls |-> "no"]
    /\ attempt = [u \in Urls |-> idleAttempt]

TunnelIdle ==
    /\ activeTunnels = {}
    /\ sshProcesses = {}
    /\ registry = <<>>
    /\ liveSsh = {}
    /\ tmCall = <<>>
    /\ lastCall = NoCall
    /\ created = [u \in Urls |-> "no"]
    /\ attempt = [u \in Urls |-> idleAttempt]

\* part_001:104-138: createServeoTunnel spawns ssh; u is the url serveo is
\* going to announce for it.
CreateServeoTunnel(u) ==
    /\ created[u] = "no"
    /\ \A v \in Urls : v < u => created[v] # "no"
    /\ created' = [created EXCEPT ![u] = "pending"]
    /\ liveSsh' = liveSsh \cup {u}
    /\ UNCHANGED <<attempt, ngrokVars, senderVars, recvVars, activeTunnels, sshProcesses, registry,
                   tmCall, lastCall>>

\* part_001:141-170 and 193-222: the url shows up in the output of ssh: the
\* process and the tunnel are registered, and the url is added to the
\* registry file unless it is there.
UrlFound(u) ==
    /\ created[u] = "pending"
    /\ u \in liveSsh
    /\ created' = [created EXCEPT ![u] = "resolved"]
    /\ sshProcesses' = sshProcesses \cup {u}
    /\ activeTunnels' = activeTunnels \cup {u}
    /\ registry' = IF Includes(registry, u) THEN registry ELSE Append(registry, u)
    /\ tmCall' = [i \in 1..Len(tmCall) |-> [tmCall[i] EXCEPT !.quiet = FALSE]]
    /\ lastCall' = [NoCall EXCEPT !.op = "register", !.url = u]
    /\ UNCHANGED <<attempt, ngrokVars, senderVars, recvVars, liveSsh>>

\* part_001:132-138 and 245-258: the 20 s timer fires, or ssh exits or
\* fails, before a url was seen.
CreateRejects(u) ==
    /\ created[u] = "pending"
    /\ created' = [created EXCEPT ![u] = "rejected"]
    /\ liveSsh' = liveSsh \ {u}
    /\ UNCHANGED <<attempt, ngrokVars, senderVars, recvVars, activeTunnels, sshProcesses, registry,
                   tmCall, lastCall>>

\* closeTunnel(url), for a url the manager knows or not.
CloseTunnel(url) ==
    /\ LET st == CloseTunnelState(ManagerState, url)
       IN /\ activeTunnels' = st.active
          /\ sshProcesses' = st.ssh
          /\ liveSsh' = st.live
          /\ registry' = st.reg
          /\ lastCall' = [NoCall EXCEPT !.op = "closeTunnel", !.url = url,
                                        !.success = st.success,
                                        !.after = lastCall.op]
    /\ UNCHANGED <<attempt, ngrokVars, senderVars, recvVars, tmCall, created>>

\* part_001:316-345: closeAllTunnels() up to the point where it waits for
\* pkill (or taskkill).
CloseAllBegin ==
    /\ Len(tmCall) < MaxCalls
    /\ LET done == CloseEach(ManagerState, activeTunnels, NoResults)
       IN /\ activeTunnels' = done.st.active
          /\ sshProcesses' = done.st.ssh
          /\ liveSsh' = done.st.live
          /\ registry' = done.st.reg
          /\ tmCall' = Append(tmCall,
                              [NoCall EXCEPT !.op = "closeAllTunnels",
                                             !.results = done.results,
                                             !.after = lastCall.op,
                                             !.before = lastCall.results])
    /\ UNCHANGED <<attempt, ngrokVars, senderVars, recvVars, lastCall, created>>

\* part_001:345-354: pkill has run: every ssh process to serveo.net is gone,
\* the registry is cleared and the results are returned.
CloseAllReturns(i) ==
    /\ i \in 1..Len(tmCall)
    /\ liveSsh' = {}
    /\ registry' = <<>>
    /\ lastCall' = tmCall[i]
    /\ tmCall' = SubSeq(tmCall, 1, i - 1) \o SubSeq(tmCall, i + 1, Len(tmCall))
    /\ UNCHANGED <<attempt, ngrokVars, senderVars, recvVars, activeTunnels, sshProcesses, created>>

TunnelNext ==
    \/ \E u \in Urls : CreateServeoTunnel(u)
    \/ \E u \in Urls : UrlFound(u)
    \/ \E u \in Urls : CreateRejects(u)
    \/ \E u \in AllUrls : CloseTunnel(u)
    \/ CloseAllBegin
    \/ \E i \in 1..MaxCalls : CloseAllReturns(i)

\* ==================================== the registry of src/utils/tunnelManager.js
\* The processes of the machine that call the functions of the module: each
\* command is a process of its own.
MaxProcs == 2         \* processes that use the registry file at a time
RegProcs == 1..MaxProcs

\* active_tunnels.json: the tunnels array of its JSON text, and whether the
\* text is the whole text of one write ("whole"), has been cut to length 0
\* by a writer that has not written yet ("truncated"), or is the text of one
\* write followed by the rest of a longer one ("garbled").
WholeFile(tunnels) == [tunnels |-> tunnels, text |-> "whole"]

idleMgr == [pc |-> "idle", op |-> "none", tunnels |-> <<>>, toSave |-> <<>>,
            threw |-> FALSE, none |-> FALSE,
            result |-> [closedFromNgrok |-> 0, closedFromRegistry |-> 0,
                        errors |-> 0],
            report |-> "none", url |-> 0]

NgrokIdle ==
    /\ infoFile = WholeFile(<<>>)
    /\ mgr = [p \in RegProcs |-> idleMgr]
    /\ ngrokUp = FALSE

\* What initTunnelManager and earlier commands left: a registry of zero, one
\* or two urls, with or without an ngrok process.
NgrokInit ==
    /\ infoFile \in {WholeFile(<<>>), WholeFile(<<1>>), WholeFile(<<1, 2>>)}
    /\ mgr = [p \in RegProcs |-> idleMgr]
    /\ ngrokUp \in BOOLEAN

\* src/utils/tunnelManager.js:60-70 (part_001:46-56): loadTunnelInfo():
\* readJSONSync throws on a text that is not JSON, the catch logs it and the
\* function returns [].
LoadTunnelInfo(file) ==
    IF file.text = "whole"
    THEN [tunnels |-> file.tunnels, threw |-> FALSE]
    ELSE [tunnels |-> <<>>, threw |-> TRUE]

\* src/utils/tunnelManager.js:45-54 (part_001:31-40): saveTunnelInfo(tunnels)
\* is fs.writeJSONSync on the path of the registry itself: the file is
\* opened with truncation, then the text is written at offset 0.
SaveTruncates(p) ==
    /\ mgr[p].pc = "loaded"
    /\ infoFile' = [infoFile EXCEPT !.text = "truncated", !.tunnels = <<>>]
    /\ mgr' = [mgr EXCEPT ![p].pc = "truncated"]
    /\ UNCHANGED <<senderVars, recvVars, tunnelVars, ngrokUp>>

\* The write of the text: onto an empty file it leaves the text; onto what
\* another writer has written since the truncation it leaves the text
\* followed by the rest of the other text when that one is longer.
SaveWrites(p) ==
    /\ mgr[p].pc = "truncated"
    /\ infoFile' =
         IF infoFile.text = "truncated" \/ Len(mgr[p].toSave) >= Len(infoFile.tunnels)
         THEN WholeFile(mgr[p].toSave)
         ELSE [infoFile EXCEPT !.text = "garbled"]
    /\ mgr' = [mgr EXCEPT ![p].pc = "done"]
    /\ UNCHANGED <<senderVars, recvVars, tunnelVars, ngrokUp>>

\* src/utils/tunnelManager.js:76-86: registerTunnel(tunnelUrl), up to the
\* call of saveTunnelInfo.
RegisterTunnel(p, tunnelUrl) ==
    /\ mgr[p].pc = "idle"
    /\ LET loaded == LoadTunnelInfo(infoFile)
       IN mgr' = [mgr EXCEPT
                    ![p].op = "registerTunnel",
                    ![p].url = tunnelUrl,
                    ![p].tunnels = loaded.tunnels,
                    ![p].threw = loaded.threw,
                    ![p].toSave = Append(loaded.tunnels, tunnelUrl),
                    ![p].pc = IF Includes(loaded.tunnels, tunnelUrl)
                              THEN "done" ELSE "loaded"]
    /\ ngrokUp' = TRUE
    /\ UNCHANGED <<senderVars, recvVars, tunnelVars, infoFile>>

\* src/utils/tunnelManager.js:92-100: unregisterTunnel(tunnelUrl), up to the
\* call of saveTunnelInfo.
UnregisterTunnel(p, tunnelUrl) ==
    /\ mgr[p].pc = "idle"
    /\ LET loaded == LoadTunnelInfo(infoFile)
       IN mgr' = [mgr EXCEPT
                    ![p].op = "unregisterTunnel",
                    ![p].url = tunnelUrl,
                    ![p].tunnels = loaded.tunnels,
                    ![p].threw = loaded.threw,
                    ![p].toSave = Without(loaded.tunnels, tunnelUrl),
                    ![p].pc = "loaded"]
    /\ UNCHANGED <<senderVars, recvVars, tunnelVars, infoFile, ngrokUp>>

\* src/utils/tunnelManager.js:106-113: listActiveTunnels() reads the
\* registry for fromRegistry.
ListActiveTunnels(p) ==
    /\ mgr[p].pc = "idle"
    /\ LET loaded == LoadTunnelInfo(infoFile)
       IN mgr' = [mgr EXCEPT
                    ![p].op = "listActiveTunnels",
                    ![p].tunnels = loaded.tunnels,
                    ![p].threw = loaded.threw,
                    ![p].pc = "done"]
    /\ UNCHANGED <<senderVars, recvVars, tunnelVars, infoFile, ngrokUp>>

\* src/commander/commands.js:196-203: what `tunnels-close` reports: "Closed
\* n tunnels successfully", a warning with the errors, or "No active
\* tunnels found to close".
TunnelsCloseReport(result) ==
    IF result.closedFromNgrok > 0 \/ result.closedFromRegistry > 0 THEN "succeed"
    ELSE IF result.errors > 0 THEN "warn"
    ELSE "info"

\* src/utils/tunnelManager.js:152-177: closeAllTunnels(), up to the call of
\* saveTunnelInfo([]): `await ngrok.kill()` resolves or rejects (killed);
\* the count of line 162 is set whenever it resolves.
NgrokCloseAllTunnels(p, killed) ==
    /\ mgr[p].pc = "idle"
    /\ LET loaded == LoadTunnelInfo(infoFile)
           result == [closedFromNgrok |-> IF killed THEN 1 ELSE 0,
                      closedFromRegistry |-> Len(loaded.tunnels),
                      errors |-> IF killed THEN 0 ELSE 1]
       IN mgr' = [mgr EXCEPT
                    ![p].op = "closeAllTunnels",
                    ![p].tunnels = loaded.tunnels,
                    ![p].threw = loaded.threw,
                    ![p].toSave = <<>>,
                    ![p].none = ~ngrokUp /\ infoFile = WholeFile(<<>>),
                    ![p].result = result,
                    ![p].report = TunnelsCloseReport(result),
                    ![p].pc = "loaded"]
    /\ ngrokUp' = IF killed THEN FALSE ELSE ngrokUp
    /\ UNCHANGED <<senderVars, recvVars, tunnelVars, infoFile>>

RegistryNext ==
    \/ \E p \in RegProcs, u \in Urls : RegisterTunnel(p, u)
    \/ \E p \in RegProcs, u \in Urls : UnregisterTunnel(p, u)
    \/ \E p \in RegProcs : ListActiveTunnels(p)
    \/ \E p \in RegProcs, killed \in BOOLEAN : NgrokCloseAllTunnels(p, killed)
    \/ \E p \in RegProcs : SaveTruncates(p)
    \/ \E p \in RegProcs : SaveWrites(p)

\* startFileServer(filePath, options) has been called.
Init == SenderInit("start", ApiOptions, {"file", "missing"}) /\ RecvIdle /\ TunnelIdle /\ NgrokIdle

Next == SenderNext

Spec == Init /\ [][Next]_vars

\* The `send` command has been invoked; the listener accepts one client.
CliInit == SenderInit("cli", {NoOptions}, {"file", "missing"}) /\ RecvIdle /\ TunnelIdle /\ NgrokIdle

FirstConn == CHOOSE c \in Conns : \A d \in Conns : c <= d

CliNext ==
    \/ SendCommand
    \/ StartFileServer
    \/ \E r \in {"ok", "failed"} : TunnelSettles(r)
    \/ TunnelTimeout
    \/ Accept(FirstConn)
    \/ GetConnects(FirstConn)
    \/ \E m \in ClientFrames : ClientSends(FirstConn, m)
    \/ PayloadTimer(FirstConn)
    \/ CloseTimer(FirstConn)
    \/ ClientCloses(FirstConn)
    \/ InactivityFires
    \/ Sigint
    \/ CtrlC
    \/ SigintDefault
    \/ Tick

CliSpec == CliInit /\ [][CliNext]_vars

\* ===================================================== the sender's claims

\* C1: in a session that requires a password, a `ready` whose password
\* differs from the session's (or is absent) is answered with the error
\* frame and schedules no metadata and no payload; a `ready` carrying the
\* session's password is answered with metadata.
C1_PasswordGate ==
    [][\A c \in Conns, m \in ReadyFrames :
         (usePassword /\ ClientSends(c, m)) =>
            IF StrictEq(m.password, password)
            THEN /\ conn'[c].metaSent = conn[c].metaSent + 1
                 /\ conn'[c].errSent = conn[c].errSent
            ELSE /\ conn'[c].errSent = conn[c].errSent + 1
                 /\ conn'[c].metaSent = conn[c].metaSent
                 /\ conn'[c].payloadTimers = conn[c].payloadTimers
                 /\ conn'[c].binSent = conn[c].binSent]_vars

\* A protected session has rejected one `ready` and served another on the
\* same connection.
C1_Witness ==
    /\ usePassword
    /\ \E c \in Conns : /\ conn[c].errSent = 1
                        /\ conn[c].metaSent = 1
                        /\ conn[c].binSent = 1

\* C2: a session started with `send <path> --password P` requires P: once
\* startFileServer has set the password up, the session is protected and its
\* password is P.
C2_CliPasswordEnforced ==
    (pc \notin {"cli", "start"} /\ StrictEq(options.password, JSStr(CliPassword)))
        => (usePassword /\ StrictEq(password, JSStr(CliPassword)))

\* C4: a `received` frame on a connection on which no payload has been sent
\* is a protocol violation: it neither marks the transfer complete nor
\* touches the inactivity timer.
C4_EarlyAckIsViolation ==
    [][\A c \in Conns :
         (conn[c].binSent = 0 /\ ClientSends(c, ReceivedFrame)) =>
            /\ conn'[c].transferComplete = conn[c].transferComplete
            /\ timers' = timers
            /\ serverTimeout' = serverTimeout]_vars

\* C7: in forced-tunnel mode a failed or timed-out tunnel request ends the
\* sender with a non-zero exit; it never serves the file locally.
C7_ForcedTunnelHardFailure ==
    (Truthy(options.forceTunnel) /\ tunnelOutcome \in {"failed", "timeout"})
        => (pc = "exited" /\ exitCode # 0 /\ ~connHandler)

\* C8: with forced-tunnel mode off, the wait on the tunnel can always end
\* (the 30 s timer is pending while it lasts); once it has ended in failure
\* or timeout the public endpoint is and stays unset and the session is
\* serving on its listener, or has served and ended without error.
C8_LocalFallback ==
    /\ pc = "tunnelWait" => ENABLED TunnelTimeout
    /\ (~Truthy(options.forceTunnel) /\ tunnelOutcome \in {"failed", "timeout"})
         => /\ pc # "tunnelWait"
            /\ ngrokUrl = JSNull
            /\ \/ pc = "serving" /\ wssOpen /\ connHandler
               \/ pc = "exited" /\ exitCode = 0

\* The tunnel request timed out, the tunnel came up late, and a local client
\* has completed a transfer.
C8_Witness ==
    /\ ~Truthy(options.forceTunnel)
    /\ tunnelOutcome = "timeout"
    /\ tunnelPromise = "ok"
    /\ pc = "serving"
    /\ conn[FirstConn].binSent = 1
    /\ conn[FirstConn].transferComplete

\* C10: at no time are two inactivity timers pending; accepting a `received`
\* leaves exactly one, due 30 minutes from that moment, under the handle
\* serverTimeout, with the listener still open and its handler registered.
C10_TimerReset ==
    /\ [](Cardinality(timers) <= 1)
    /\ [][\A c \in Conns :
            ClientSends(c, ReceivedFrame) =>
               /\ timers' = {[id |-> serverTimeout',
                              deadline |-> now + INACTIVITY_TIMEOUT]}
               /\ wssOpen' /\ connHandler' /\ pc' = "serving"]_vars

\* A first connection completed its transfer and closed; half an hour later
\* a second one completed its own, and the deadline is a fresh 30 minutes.
C10_Witness ==
    \E c1, c2 \in Conns :
        /\ c1 # c2
        /\ conn[c1].st = "closed" /\ conn[c1].binSent = 1
        /\ conn[c1].transferComplete
        /\ conn[c2].st = "open" /\ conn[c2].binSent = 1
        /\ conn[c2].transferComplete
        /\ now = TICK
        /\ timers = {[id |-> serverTimeout, deadline |-> now + INACTIVITY_TIMEOUT]}
        /\ pc = "serving" /\ wssOpen

\* The tunnel of the session is closed: no ssh process of it is running and
\* the manager no longer lists it.
TunnelClosed(live, active) == SessionUrl \notin live /\ SessionUrl \notin active

\* C11: when the inactivity timer fires the sender tears the session down:
\* no client connection stays open, the listener is closed so that no
\* connection is accepted afterwards, and the session's tunnel, if there is
\* one, is closed.
C11_InactivityTeardown ==
    [][InactivityFires =>
         /\ \A c \in Conns : conn'[c].st # "open"
         /\ ~wssOpen'
         /\ pc' = "exited"
         /\ TunnelClosed(liveSsh', activeTunnels')]_vars

\* C12: an interrupt from the keyboard at any time after the session has
\* started ends the sender with the teardown the inactivity timer runs:
\* listener closed, tunnel closed.
C12_InterruptTeardown ==
    [][(Sigint \/ CtrlC \/ SigintDefault) =>
         /\ \A c \in Conns : conn'[c].st # "open"
         /\ ~wssOpen'
         /\ pc' = "exited"
         /\ TunnelClosed(liveSsh', activeTunnels')
         /\ ~Includes(registry', SessionUrl)]_vars

\* C13: whichever way the sender ends, it ends in the state its cleanup
\* leaves: listener closed, inactivity timer cleared, and nothing left of
\* what the cleanup closes of the tunnel; and the cleanup applied to the
\* state it has left changes nothing.
C13_SingleCleanup ==
    [][(pc # "exited" /\ pc' = "exited") =>
         LET once == CleanupManager(ManagerState, ngrokUrl)
         IN /\ ~wssOpen'
            /\ ClearTimeout(timers', serverTimeout) = timers'
            /\ liveSsh' \subseteq once.live
            /\ sshProcesses' \subseteq once.ssh
            /\ activeTunnels' \subseteq once.active
            /\ \A u \in AllUrls : Includes(registry', u) => Includes(once.reg, u)
            /\ CleanupManager(once, ngrokUrl) = once
            /\ ClearTimeout(ClearTimeout(timers, serverTimeout), serverTimeout)
                   = ClearTimeout(timers, serverTimeout)]_vars

\* C15: on every connection a `ready` that is not rejected is answered at
\* once with the metadata frame and arms that connection's payload timer,
\* touching no other connection; a pending payload timer can always fire,
\* whatever the other connections are doing, and when it fires on an open
\* connection it sends the payload there and changes nothing elsewhere.
C15_IndependentTransfers ==
    /\ [](\A c \in Conns :
            (pc # "exited" /\ conn[c].payloadTimers > 0) => ENABLED PayloadTimer(c))
    /\ [][\A c \in Conns, m \in ReadyFrames :
            (ClientSends(c, m) /\ ~PasswordRejected(m)) =>
               /\ conn'[c].metaSent = conn[c].metaSent + 1
               /\ conn'[c].payloadTimers = conn[c].payloadTimers + 1
               /\ \A d \in Conns \ {c} : conn'[d] = conn[d]]_vars
    /\ [][\A c \in Conns :
            (PayloadTimer(c) /\ conn[c].st = "open") =>
               /\ conn'[c].binSent = conn[c].binSent + 1
               /\ conn'[c].binSent <= conn[c].metaSent
               /\ \A d \in Conns \ {c} : conn'[d] = conn[d]]_vars

\* Two receivers are connected and both have had their metadata; the one
\* that connected second has its payload and has acknowledged it while the
\* first is still waiting for its own.
C15_Witness ==
    \E c1, c2 \in Conns :
        /\ c1 < c2
        /\ conn[c1].st = "open" /\ conn[c2].st = "open"
        /\ conn[c1].metaSent = 1 /\ conn[c1].binSent = 0 /\ conn[c1].payloadTimers = 1
        /\ conn[c2].metaSent = 1 /\ conn[c2].binSent = 1 /\ conn[c2].transferComplete

\* The k-th binary frame on a connection of the sender of src/src/server.js
\* comes after a metadata frame.
RECURSIVE CountOf(_, _)
CountOf(kind, frames) ==
    IF frames = <<>> THEN 0
    ELSE (IF frames[Len(frames)] = kind THEN 1 ELSE 0)
         + CountOf(kind, SubSeq(frames, 1, Len(frames) - 1))

SimpleMetadataFirst ==
    \A c \in Conns : \A n \in 1..Len(simple.conn[c].sent) :
        LET upTo == SubSeq(simple.conn[c].sent, 1, n)
        IN CountOf("binary", upTo) <= CountOf("metadata", upTo)

\* C16: on every connection the binary frames sent so far are no more than
\* the metadata frames sent so far, and a payload goes out only from the
\* timer that the handling of a `ready` armed after it had sent the
\* metadata: each payload is preceded by a metadata frame. A frame is
\* handled in the step in which it arrives, so frames are handled in the
\* order of their arrival.
C16_MetadataBeforePayload ==
    /\ [](\A c \in Conns : conn[c].binSent + conn[c].payloadTimers <= conn[c].metaSent)
    /\ []SimpleMetadataFirst
    /\ [][\A c \in Conns :
            conn'[c].binSent > conn[c].binSent =>
               /\ PayloadTimer(c)
               /\ conn[c].metaSent >= conn'[c].binSent]_vars

\* A connection has been sent two metadata frames and then, by the two
\* timers, two payloads.
C16_Witness ==
    \E c \in Conns :
        conn[c].metaSent = 2 /\ conn[c].binSent = 2 /\ conn[c].payloadTimers = 0

\* C18: a receiver that is given the public url and runs `get` reaches the
\* WebSocket listener of the session: its connection is open there.
C18_TunnelReachesListener ==
    [][\A c \in Conns : GetConnects(c) => conn'[c].st = "open"]_vars

\* ---------------------------------------------------------------- PathSpec
\* The send command given any path: a file, a name of nothing, a directory.
PathInit ==
    SenderInit("cli", {NoOptions}, {"file", "missing", "directory"})
        /\ RecvIdle /\ TunnelIdle /\ NgrokIdle

PathSpec == PathInit /\ [][CliNext]_vars

\* C19: when the path given to `send` names no file or names a directory,
\* the sender never has a listener open and never has a connection, and
\* the command ends with a status that is not zero.
C19_BadPathRejected ==
    sharedPath # "file" =>
        /\ ~wssOpen
        /\ \A c \in Conns : conn[c].st = "none"
        /\ pc \in {"cli", "start", "exited"}
        /\ pc = "exited" => exitCode # 0

\* C20: the password of the session is in no entry of the debug log, debug
\* mode or not, and no frame the sender accepts carries it as it is.
C20_PasswordNotExposed ==
    /\ [](usePassword => \A entry \in debugLog : ~StrictEq(entry.password, password))
    /\ [][\A c \in Conns, m \in ReadyFrames :
            (usePassword /\ ClientSends(c, m) /\ ~PasswordRejected(m))
               => ~StrictEq(m.password, password)]_vars

\* -------------------------------------------------------------- SimpleSpec
\* A session of the sender of src/src/server.js:12-79.
SimpleSpecInit == SenderInit("exited", {NoOptions}, {"file"}) /\ RecvIdle /\ TunnelIdle /\ NgrokIdle

SimpleSpec == SimpleSpecInit /\ [][SimpleNext]_vars

\* C14: a failure on one connection of a session (a transport error, a
\* frame that is not JSON, the peer going away) leaves the session running
\* with its listener open and leaves every other connection as it was.
C14_ConnectionFailureIsolated ==
    [][\A c \in Conns :
         (\/ SimpleError(c)
          \/ SimpleClientCloses(c)
          \/ \E m \in {NullFrame, GarbageFrame} : SimpleMessage(c, m))
         => /\ simple'.pc = simple.pc
            /\ simple'.wssOpen = simple.wssOpen
            /\ \A d \in Conns \ {c} : simple'.conn[d] = simple.conn[d]]_vars

\* ---------------------------------------------------------------- RecvSpec
\* Receive operations of one user for one file name; no sender session of
\* this process, no tunnel manager call.
SenderIdle == SenderInit("exited", {NoOptions}, {"file"})

RecvSpecInit == RecvInit /\ SenderIdle /\ TunnelIdle /\ NgrokIdle

RecvSpec == RecvSpecInit /\ [][RecvNext]_vars

\* ------------------------------------------------------------ RecvLiveSpec
\* The receive operations with connections that can be lost. What is fair:
\* a connection requested opens, a frame that has arrived is handled, the
\* timers of the sender and of the receiver fire. Losing a connection,
\* starting an operation and answering a prompt are up to the environment.
RecvLiveNext ==
    \/ RecvNext
    \/ \E p \in Procs : PeerCloses(p)
    \/ \E p \in Procs : ConnectionError(p)
    \/ \E p \in Procs : ConnectionTimeout(p)

RecvFairness ==
    \A p \in Procs :
        /\ WF_vars(Open(p))
        /\ WF_vars(SenderStreams(p))
        /\ WF_vars(Deliver(p))
        /\ WF_vars(Reinvoke(p))
        /\ WF_vars(ReceiverExits(p))

RecvLiveSpec == RecvSpecInit /\ [][RecvLiveNext]_vars /\ RecvFairness

\* C17: a receive operation whose connection the sender has closed after
\* it opened and before the payload came ends in failure.
C17_LostConnectionFails ==
    \A p \in Procs :
        (rcv[p].pc = "open" /\ rcv[p].peer = "closed") ~> (rcv[p].pc = "failed")

\* C3: whenever a receiver has reported success (it wrote the file and sent
\* `received`), the destination file holds the source's bytes, all S of
\* them and no others, for every source content of the model, the empty one
\* and those that are JSON text included.
C3_RoundTrip ==
    \A p \in Procs :
       rcv[p].pc = "acked" =>
          /\ dir[rcv[p].finalFilePath] = srcContent
          /\ Len(dir[rcv[p].finalFilePath]) = Len(srcContent)

\* A receiver has reported success for a source that is JSON text, after a
\* password retry and under a name the collision loop made.
C3_Witness ==
    /\ srcContent = "null"
    /\ sessPw # JSNull
    /\ \E p \in Procs :
         /\ rcv[p].impl = "server.js" /\ rcv[p].pc = "acked" /\ rcv[p].prompts = 1
         /\ rcv[p].finalFilePath = Candidate(FileName, 2)
         /\ dir[rcv[p].finalFilePath] = "null"
         /\ Len(dir[rcv[p].finalFilePath]) = 4

\* The name the directory listing `taken` leaves for a new file: the name
\* itself, or the name with the smallest free suffix.
SmallestFree(taken) ==
    IF FileName \notin taken THEN FileName
    ELSE Candidate(FileName,
                   CHOOSE n \in 1..(MaxRecv + 2) :
                      /\ Candidate(FileName, n) \notin taken
                      /\ \A k \in 1..(n - 1) : Candidate(FileName, k) \in taken)

\* C5 (as the spec states it): when a receive runs with no other receive
\* beside it and saves the file, it saves it under the name itself or, that
\* being taken, under <base>_<n><ext> with the smallest free n >= 1, and the
\* files that were there when it started are as they were.
C5_SequentialNaming ==
    [][\A p \in Procs :
         (/\ Deliver(p)
          /\ rcv'[p].pc = "acked"
          /\ \A q \in Procs \ {p} : rcv[q].pc \in {"idle", "done", "failed"}
          /\ rcv[p].existed = {f \in AllPaths : ExistsSync(dir, f)})
         => /\ rcv[p].finalFilePath = SmallestFree(rcv[p].existed)
            /\ \A f \in rcv[p].existed : dir'[f] = dir[f]]_vars

\* C6 (as the spec states it): a receive operation of the renaming receiver
\* saves the file to a path that holds no file, whatever other receive
\* operations did since it started: it writes over no file that another one
\* saved.
C6_DistinctPaths ==
    [][\A p \in Procs :
         (/\ Deliver(p)
          /\ rcv'[p].pc = "acked"
          /\ rcv[p].impl = "server.js")
         => ~ExistsSync(dir, rcv[p].finalFilePath)]_vars

\* -------------------------------------------------------------- TunnelSpec
\* Calls on the tunnel manager of one process.
TunnelSpecInit == TunnelInit /\ SenderIdle /\ RecvIdle /\ NgrokIdle

TunnelSpec == TunnelSpecInit /\ [][TunnelNext]_vars

\* The step is a call of closeAllTunnels made right after a closeAllTunnels
\* call returned, no tunnel having been registered since that call began.
SecondCloseAll ==
    CloseAllBegin /\ lastCall.op = "closeAllTunnels" /\ lastCall.quiet

RegistryInit == NgrokInit /\ SenderIdle /\ RecvIdle /\ TunnelIdle

RegistrySpec == RegistryInit /\ [][RegistryNext]_vars

\* C21: the registry file is replaced atomically, so no process that reads
\* it while another process writes it finds a text that is cut short or
\* does not parse: no load of the registry ends in the catch block of
\* loadTunnelInfo, and the file never holds a garbled text.
C21_AtomicRegistryWrites ==
    /\ infoFile.text = "whole"
    /\ \A p \in RegProcs : ~mgr[p].threw

\* C23: closeAllTunnels called while no ngrok process runs and the registry
\* is empty returns closedFromNgrok = 0 and closedFromRegistry = 0, and
\* `tunnels-close` reports that there was nothing to close.
C23_NothingToClose ==
    \A p \in RegProcs :
        (mgr[p].op = "closeAllTunnels" /\ mgr[p].none)
            => /\ mgr[p].result.closedFromNgrok = 0
               /\ mgr[p].result.closedFromRegistry = 0
               /\ mgr[p].report = "info"

\* ================================== the sender on a machine with leftovers
\* part_001:10-11 and 104-138: what the machine holds when `send` is
\* invoked: the registry file may list the url of a session that ended
\* without its cleanup, whose ssh process may have outlived it, and the url
\* of another sender session that is live, with its ssh process.
MachineInit ==
    /\ activeTunnels = {}
    /\ sshProcesses = {}
    /\ \E stale \in {"none", "dead", "alive"}, other \in BOOLEAN :
         /\ registry = (IF stale = "none" THEN <<>> ELSE <<StaleUrl>>)
                          \o (IF other THEN <<OtherUrl>> ELSE <<>>)
         /\ liveSsh = (IF stale = "alive" THEN {StaleUrl} ELSE {})
                          \cup (IF other THEN {OtherUrl} ELSE {})
    /\ tmCall = <<>>
    /\ lastCall = NoCall
    /\ created = [u \in Urls |-> "no"]
    /\ attempt = [u \in Urls |-> idleAttempt]

MachineSpecInit ==
    SenderInit("cli", {NoOptions}, {"file", "missing"})
        /\ RecvIdle /\ MachineInit /\ NgrokIdle

MachineSpec == MachineSpecInit /\ [][CliNext]_vars

\* C22: in every start of the sender the cleanup of the tunnels an earlier
\* process left in the registry is complete before the tunnel of the new
\* session is requested: once the request is made the registry holds no url
\* of an earlier process, and the ssh process of the request is alive after
\* the step that made it (the cleanup did not come after it).
C22_CleanupBeforeRequest ==
    /\ [](created[SessionUrl] # "no" => ~Includes(registry, StaleUrl))
    /\ [][StartFileServer
            => /\ created'[SessionUrl] = "pending"
               /\ SessionUrl \in liveSsh'
               /\ ~Includes(registry', StaleUrl)]_vars

\* The registry listed the url of an ended session when the sender started;
\* the tunnel of the new session is up and its url is the only one listed.
C22_Witness ==
    /\ Includes(lastCall.found, StaleUrl)
    /\ created[SessionUrl] = "resolved"
    /\ registry = <<SessionUrl>>
    /\ SessionUrl \in liveSsh

\* C29: no step of a sender session (its start, the timeout of its tunnel
\* request, its teardown) ends the ssh process of another session that is
\* live on the machine or takes that session's url out of the registry.
C29_OtherSessionsUntouched ==
    [][/\ OtherUrl \in liveSsh => OtherUrl \in liveSsh'
       /\ Includes(registry, OtherUrl) => Includes(registry', OtherUrl)]_vars

\* ========================================== the connection handler's claims
\* C24: once the sender has answered a `ready` on a connection with
\* `Invalid password`, it sends no metadata and no binary frame on that
\* connection any more, whatever arrives during the 1 s delay, and the
\* connection is closed when the delay ends.
C24_RejectedIsTerminal ==
    [][\A c \in Conns :
          /\ conn[c].errSent > 0
                => /\ conn'[c].metaSent = conn[c].metaSent
                   /\ conn'[c].binSent = conn[c].binSent
          /\ CloseTimer(c) => conn'[c].st = "closed"]_vars

\* C25: on one connection the sender sends the metadata at most once and
\* the binary payload at most once, whatever frames the client sends.
C25_OneTransferPerConnection ==
    \A c \in Conns : conn[c].metaSent <= 1 /\ conn[c].binSent <= 1

\* ================================================ the receiver and a file
\* that changes. The receivers are those of src/src/server.js:123; their
\* sender is the session of part_000.
RewriteInit ==
    /\ RecvSpecInit
    /\ \A p \in Procs : rcv[p].impl = "server.js"

RewriteNext == RecvNext \/ FileChanges

RewriteSpec == RewriteInit /\ [][RewriteNext]_vars

\* C26: the receiver sends `received` only for a payload whose byte count
\* is the fileSize of the metadata it got before: the step in which it
\* writes the file and acknowledges takes a frame of totalSize bytes.
C26_AckOnlyMatchingPayload ==
    [][\A p \in Procs :
          (rcv[p].pc # "acked" /\ rcv'[p].pc = "acked")
             => /\ rcv[p].chan # <<>>
                /\ Len(Head(rcv[p].chan)) = rcv[p].totalSize]_vars

\* C27: once the handshake has succeeded and the sender has sent the
\* payload, the receiver takes the payload frame as the file, whatever its
\* bytes are (JSON text included): it writes it, sends `received` and
\* reaches its end, unless the connection reports an error first.
C27_PayloadIsFileData ==
    \A p \in Procs :
        (rcv[p].pc = "open" /\ rcv[p].peer = "streamed")
            ~> (rcv[p].pc \in {"done", "failed"})

\* C28: the teardown of a session (cleanupAndExit, from the inactivity
\* timer or from SIGINT) closes every tunnel the session's request has
\* brought up, one that came up after the 30 s timer fired included: after
\* it the session's url is in none of the active-tunnel map, the
\* ssh-process map and the registry, and its ssh process is gone.
C28_TeardownClosesEveryTunnel ==
    [][(InactivityFires \/ Sigint) =>
         /\ SessionUrl \notin activeTunnels'
         /\ SessionUrl \notin sshProcesses'
         /\ ~Includes(registry', SessionUrl)
         /\ created[SessionUrl] = "resolved" => SessionUrl \notin liveSsh']_vars

\* C30: every connection the listener has accepted, one accepted while the
\* tunnel request is still in progress included, has a protocol handler, so
\* that a `ready` sent on it gets its answer.
C30_AcceptedIsHandled ==
    \A c \in Conns : conn[c].st = "open" => conn[c].handled

\* C31: the inactivity timer never fires while a client connection is in
\* the middle of a transfer: open, its metadata and its payload sent, its
\* `received` not yet in.
C31_NoTeardownMidTransfer ==
    [][InactivityFires =>
         \A c \in Conns :
            ~(/\ conn[c].st = "open"
              /\ conn[c].metaSent > 0
              /\ conn[c].binSent > 0
              /\ conn[c].payloadTimers = 0
              /\ ~conn[c].transferComplete)]_vars

\* A frame the protocol has no place for on connection c: one that is not
\* JSON, JSON null, one with no type or an unknown type, or a `received`
\* for which no payload has been sent.
Offending(c, m) ==
    \/ ~m.parses
    \/ m.isNull
    \/ m.type \notin {"ready", "received", "pong"}
    \/ m.type = "received" /\ conn[c].binSent = 0

\* C32: whatever frame arrives on a connection, the session stays alive
\* with its listener open; and a frame the protocol has no place for is
\* ignored (the connection and the inactivity timer stay as they are) or the
\* connection is dropped.
C32_OffendingFrameIgnoredOrDropped ==
    [][\A c \in Conns, m \in ClientFrames :
          ClientSends(c, m) =>
             /\ pc' = pc
             /\ exitCode' = exitCode
             /\ wssOpen' = wssOpen
             /\ Offending(c, m) =>
                   \/ conn'[c] = conn[c] /\ timers' = timers
                   \/ conn'[c].closeTimers > conn[c].closeTimers
                   \/ conn'[c].st = "closed"]_vars

\* C33: on the error `Invalid password` the receiver of src/src/server.js
\* prompts; the answer closes the connection and leads to one call of
\* receiveFile with the password entered, whose connection starts with no
\* frame received and no size known and whose `ready` carries that password
\* (the sender's check is made on it); on any other error the receiver
\* fails and stays failed.
C33_PasswordRetry ==
    [][\A p \in Procs :
          /\ (Deliver(p) /\ rcv[p].pc = "open" /\ rcv[p].impl = "server.js"
                /\ JSONParse(Head(rcv[p].chan)).type = "error")
                => rcv'[p].pc =
                      IF JSONParse(Head(rcv[p].chan)).message = "Invalid password"
                      THEN "prompting" ELSE "failed"
          /\ \A entered \in {CliPassword, WrongPassword} :
                PromptAnswered(p, entered)
                   => /\ rcv'[p].pc = "retryWait"
                      /\ rcv'[p].chan = <<>>
                      /\ rcv'[p].password = JSStr(entered)
          /\ rcv[p].pc = "retryWait"
                => \/ rcv'[p] = rcv[p]
                   \/ /\ rcv'[p].pc = "connecting"
                      /\ rcv'[p].password = rcv[p].password
                      /\ rcv'[p].totalSize = 0
                      /\ rcv'[p].chan = <<>>
                      /\ rcv'[p].prompts = rcv[p].prompts
          /\ (Open(p) /\ rcv[p].impl = "server.js" /\ sessPw # JSNull)
                => (rcv'[p].peer = "metadataSent"
                       <=> StrictEq(rcv[p].password, sessPw))
          /\ rcv[p].pc = "failed" => rcv'[p].pc = "failed"]_vars

\* A receiver that was started with no password has been prompted once, has
\* reconnected with the password entered, and the sender has accepted it.
C33_Witness ==
    /\ sessPw = JSStr(CliPassword)
    /\ \E p \in Procs :
         /\ rcv[p].impl = "server.js"
         /\ rcv[p].prompts = 1
         /\ rcv[p].password = sessPw
         /\ rcv[p].pc = "open"
         /\ rcv[p].peer = "metadataSent"

\* ------------------------------------------------------------ TimeoutSpec
\* The receive operations of src/src/server.js:123, the only ones with a
\* connection timeout, with connections that can be lost or never open.
\* The file is empty or not: its content has no part in the handshake.
TimeoutInit ==
    /\ RecvSpecInit
    /\ srcContent \in {"", "abc"}
    /\ \A p \in Procs : rcv[p].impl = "server.js"

TimeoutSpec == TimeoutInit /\ [][RecvLiveNext]_vars

\* C34: the 10 s timer of a connection request is pending exactly while the
\* connection is being made: when it fires the attempt ends in failure, and
\* once the connection has opened or reported an error the timer is
\* cancelled and does not fire.
C34_ConnectionTimeout ==
    /\ [](\A p \in Procs :
            /\ rcv[p].connectionTimeout = "pending" => rcv[p].pc = "connecting"
            /\ (rcv[p].pc = "connecting" /\ rcv[p].impl = "server.js")
                  => rcv[p].connectionTimeout = "pending")
    /\ [][\A p \in Procs :
            ConnectionTimeout(p)
               => rcv[p].pc = "connecting" /\ rcv'[p].pc = "failed"]_vars

\* One receive operation has been ended by its timer while another, whose
\* connection opened, goes on with its timer cancelled.
C34_Witness ==
    \E p, q \in Procs :
        /\ rcv[p].connectionTimeout = "fired" /\ rcv[p].pc = "failed"
        /\ rcv[q].impl = "server.js" /\ rcv[q].pc = "open"
        /\ rcv[q].connectionTimeout = "none"

\* ----------------------------------------------------------- KeepAliveSpec
\* The session of the `send` command with the keep-alive interval of its
\* connection. What is fair: timers that are set fire while the process
\* lives.
KeepAliveNext ==
    \/ CliNext
    \/ KeepAliveTick(FirstConn)

KeepAliveFairness ==
    /\ WF_vars(KeepAliveTick(FirstConn))
    /\ WF_vars(CloseTimer(FirstConn))

KeepAliveSpec == CliInit /\ [][KeepAliveNext]_vars /\ KeepAliveFairness

allButPorts == <<http, ngrokVars, recvVars, tunnelVars, options, pc, usePassword,
                 password, ngrokUrl, tunnelOutcome, tunnelPromise, wssOpen,
                 connHandler, serverTimeout, timers, now, exitCode, conn,
                 simple, sharedPath, debugLog>>

\* The ports the session itself holds.
SessionHolds ==
    {q \in PortRange : \/ q = ports.ws /\ ports.wsBind = "bound"
                       \/ q = ports.http /\ ports.httpBind = "bound"}

\* Another process binds a port that nobody holds.
OtherProcessBinds(q) ==
    /\ q \notin ports.busy \cup SessionHolds
    /\ ports' = [ports EXCEPT !.busy = @ \cup {q}]
    /\ UNCHANGED allButPorts

\* Another process gives its port back.
OtherProcessReleases(q) ==
    /\ q \in ports.busy
    /\ ports' = [ports EXCEPT !.busy = @ \ {q}]
    /\ UNCHANGED allButPorts

\* part_000:194: `await getPort()`: get-port binds a probe to a port the
\* system picks among the free ones, closes the probe and returns the
\* number; with no free port it throws and startFileServer fails.
ChooseWsPort ==
    /\ ports.step = "none"
    /\ IF PortRange \ ports.busy = {}
       THEN ports' = [ports EXCEPT !.step = "failed"]
       ELSE \E q \in PortRange \ ports.busy :
               ports' = [ports EXCEPT !.ws = q, !.step = "wsChosen"]
    /\ UNCHANGED allButPorts

\* part_000:196: `await getPort({port: wsPort + 1})`: the preferred port if
\* its probe can bind, else a port the system picks; the port handed out
\* at line 194 is locked inside get-port and is not handed out again.
ChooseHttpPort ==
    /\ ports.step = "wsChosen"
    /\ LET taken == ports.busy \cup {ports.ws}
           free == PortRange \ taken
       IN IF ports.ws + 1 \in free
          THEN ports' = [ports EXCEPT !.http = ports.ws + 1,
                                      !.step = "httpChosen"]
          ELSE IF free = {}
          THEN ports' = [ports EXCEPT !.step = "failed"]
          ELSE \E q \in free :
                  ports' = [ports EXCEPT !.http = q, !.step = "httpChosen"]
    /\ UNCHANGED allButPorts

\* What binding a port gives: EADDRINUSE if somebody holds it.
Bind(q, held) == IF q \in held THEN "EADDRINUSE" ELSE "bound"

\* part_000:245: `new WebSocketServer({ port: wsPort })`.
BindWs ==
    /\ ports.step = "httpChosen"
    /\ ports' = [ports EXCEPT !.wsBind = Bind(ports.ws, ports.busy),
                              !.step = "wsBound"]
    /\ UNCHANGED allButPorts

\* part_000:932: `server.listen(httpPort)`.
BindHttp ==
    /\ ports.step = "wsBound"
    /\ ports' = [ports EXCEPT
                   !.httpBind = Bind(ports.http, ports.busy \cup SessionHolds),
                   !.step = "listening"]
    /\ UNCHANGED allButPorts

PortInit ==
    SenderInit("start", ApiOptions, {"file"}) /\ RecvIdle /\ TunnelIdle /\ NgrokIdle

PortNext ==
    \/ \E q \in PortRange : OtherProcessBinds(q)
    \/ \E q \in PortRange : OtherProcessReleases(q)
    \/ ChooseWsPort
    \/ ChooseHttpPort
    \/ BindWs
    \/ BindHttp

PortSpec == PortInit /\ [][PortNext]_vars

\* C36: the port of the WebSocket listener and the port of the HTTP
\* server, once both are chosen, are two different ports, and neither
\* server finds its port in use when it binds.
C36_PortsDistinctAndFree ==
    /\ ports.step \in {"httpChosen", "wsBound", "listening"}
          => ports.ws # ports.http
    /\ ports.wsBind # "EADDRINUSE"
    /\ ports.httpBind # "EADDRINUSE"

\* ------------------------------------------------------------- AttemptSpec
\* createServeoTunnel, event by event. Attempt u is the call whose ssh is
\* told url u by serveo; the calls are numbered in the order they are made.
attemptUnchanged == <<ngrokVars, senderVars, recvVars, liveSsh, tmCall,
                      lastCall, created>>

\* part_001:104-138: the call spawns ssh and sets the 20 s timer; a spawn
\* that fails (no ssh on the machine) is reported by an 'error' event.
Spawn(u, ok) ==
    /\ attempt[u].st = "none"
    /\ \A v \in Urls : v < u => attempt[v].st # "none"
    /\ attempt' = [attempt EXCEPT ![u].st = "pending", ![u].timer = TRUE,
                                  ![u].ssh = IF ok THEN "alive"
                                             ELSE "spawnFailed"]
    /\ UNCHANGED <<activeTunnels, sshProcesses, registry, attemptUnchanged>>

\* ssh prints the url serveo announced, on stdout or on stderr.
SshWrites(u, stream) ==
    /\ attempt[u].ssh = "alive"
    /\ attempt[u][stream] = "quiet"
    /\ attempt' = [attempt EXCEPT ![u][stream] = "inPipe"]
    /\ UNCHANGED <<activeTunnels, sshProcesses, registry, attemptUnchanged>>

\* part_001:141-190 (stdout) and 193-242 (stderr): a chunk with the url
\* arrives. Unless `resolved` is set: clear the timer, set `resolved`, put
\* the url into both maps and into the registry, and resolve: resolving a
\* promise that was rejected changes nothing for its callers.
OnData(u, stream) ==
    /\ attempt[u][stream] = "inPipe"
    /\ IF ~attempt[u].resolved
       THEN /\ attempt' = [attempt EXCEPT ![u][stream] = "delivered",
                                          ![u].timer = FALSE,
                                          ![u].resolved = TRUE,
                                          ![u].st = IF @ = "pending"
                                                    THEN "resolved" ELSE @,
                                          ![u].regs = @ + 1]
            /\ sshProcesses' = sshProcesses \cup {u}
            /\ activeTunnels' = activeTunnels \cup {u}
            /\ registry' = IF Includes(registry, u) THEN registry
                           ELSE Append(registry, u)
       ELSE /\ attempt' = [attempt EXCEPT ![u][stream] = "delivered"]
            /\ UNCHANGED <<activeTunnels, sshProcesses, registry>>
    /\ UNCHANGED attemptUnchanged

\* part_001:133-138: the 20 s timer fires: unless `resolved`, ssh is sent
\* the signal and the promise is rejected. What ssh wrote before it died
\* is still in the pipes.
AttemptTimeout(u) ==
    /\ attempt[u].timer
    /\ attempt' = IF attempt[u].resolved
                  THEN [attempt EXCEPT ![u].timer = FALSE]
                  ELSE [attempt EXCEPT ![u].timer = FALSE,
                                       ![u].ssh = IF @ = "alive" THEN "exited"
                                                  ELSE @,
                                       ![u].st = IF @ = "pending"
                                                 THEN "rejected" ELSE @,
                                       ![u].why = IF attempt[u].st = "pending"
                                                  THEN "timeout" ELSE @]
    /\ UNCHANGED <<activeTunnels, sshProcesses, registry, attemptUnchanged>>

\* ssh ends by itself.
SshExits(u) ==
    /\ attempt[u].ssh = "alive"
    /\ attempt' = [attempt EXCEPT ![u].ssh = "exited"]
    /\ UNCHANGED <<activeTunnels, sshProcesses, registry, attemptUnchanged>>

\* part_001:245-250: 'close': the process has ended and its pipes are
\* drained. Unless `resolved`: clear the timer and reject.
OnClose(u) ==
    /\ attempt[u].ssh = "exited"
    /\ attempt[u].stdout # "inPipe"
    /\ attempt[u].stderr # "inPipe"
    /\ attempt' = IF attempt[u].resolved
                  THEN [attempt EXCEPT ![u].ssh = "closed"]
                  ELSE [attempt EXCEPT ![u].ssh = "closed",
                                       ![u].timer = FALSE,
                                       ![u].st = IF @ = "pending"
                                                 THEN "rejected" ELSE @,
                                       ![u].why = IF attempt[u].st = "pending"
                                                  THEN "close" ELSE @]
    /\ UNCHANGED <<activeTunnels, sshProcesses, registry, attemptUnchanged>>

\* part_001:253-258: 'error': ssh could not be spawned. Unless `resolved`:
\* clear the timer and reject.
OnError(u) ==
    /\ attempt[u].ssh = "spawnFailed"
    /\ attempt' = [attempt EXCEPT ![u].ssh = "closed",
                                  ![u].timer = FALSE,
                                  ![u].st = "rejected",
                                  ![u].why = "error"]
    /\ UNCHANGED <<activeTunnels, sshProcesses, registry, attemptUnchanged>>

Streams == {"stdout", "stderr"}

AttemptNext ==
    \/ \E u \in Urls, ok \in BOOLEAN : Spawn(u, ok)
    \/ \E u \in Urls, stream \in Streams : SshWrites(u, stream)
    \/ \E u \in Urls, stream \in Streams : OnData(u, stream)
    \/ \E u \in Urls : AttemptTimeout(u)
    \/ \E u \in Urls : SshExits(u)
    \/ \E u \in Urls : OnClose(u)
    \/ \E u \in Urls : OnError(u)

AttemptSpec == TunnelSpecInit /\ [][AttemptNext]_vars

\* C37: a createServeoTunnel call that has been rejected adds no url to
\* the map of active tunnels, to the map of ssh processes or to the
\* registry afterwards; and no call registers more than one url.
C37_RejectedAddsNothing ==
    /\ [][\A u \in Urls :
            attempt[u].st = "rejected"
               => /\ u \in activeTunnels' => u \in activeTunnels
                  /\ u \in sshProcesses' => u \in sshProcesses
                  /\ Includes(registry', u) => Includes(registry, u)
                  /\ attempt'[u].regs = attempt[u].regs]_vars
    /\ [](\A u \in Urls : attempt[u].regs <= 1)

\* ---------------------------------------------------------------- HttpSpec
\* The HTTP server of part_000:249-930 seen from a client. Two sessions
\* that share a file of the same name and size under a password differ in
\* the password and in the content of the file; the client sends the same
\* request to both.
HttpContents == {"abc", "xyz"}

HttpSession(pw, content) ==
    [usePassword |-> TRUE, password |-> JSStr(pw), fileName |-> FileName,
     fileSize |-> Len(content), content |-> content]

HttpSessions ==
    {HttpSession(pw, content) :
        pw \in {CliPassword} \cup GeneratedPasswords, content \in HttpContents}

\* The paths a client asks for, and what `?password=` carries: nothing, or
\* a string.
HttpPaths == {"/", "/status", "/ping", "/download", "/other"}

HttpEntered ==
    {JSNull} \cup {JSStr(pw) : pw \in {CliPassword, WrongPassword}
                                      \cup GeneratedPasswords}

\* part_000:249-930: the request handler. isAuthenticated is line 254; the
\* password form (259-390) and the pages for `/` (391-564) and `/status`
\* (565-900) carry the name and the size of the file, the latter two the
\* password as well (543-552, 797-802, 834-877); `/download` (905-925)
\* answers 403 or streams the file.
HttpRespond(sess, pathname, enteredPassword) ==
    LET isAuthenticated == \/ ~sess.usePassword
                           \/ StrictEq(enteredPassword, sess.password)
        page(status, name, pw, content) ==
            [status |-> status, page |-> name, fileName |-> sess.fileName,
             fileSize |-> sess.fileSize, password |-> pw,
             content |-> content]
        shown == IF sess.usePassword THEN sess.password ELSE JSNull
    IN IF pathname = "/"
       THEN IF sess.usePassword /\ ~isAuthenticated
            THEN page(200, "passwordForm", JSNull, "")
            ELSE page(200, "downloadPage", shown, "")
       ELSE IF pathname = "/status"
       THEN page(200, "status", shown, "")
       ELSE IF pathname = "/ping"
       THEN [status |-> 200, page |-> "ok"]
       ELSE IF pathname = "/download"
       THEN IF sess.usePassword /\ ~isAuthenticated
            THEN [status |-> 403, page |-> "denied"]
            ELSE page(200, "file", JSNull, sess.content)
       ELSE [status |-> 404, page |-> "Not found"]

allButHttp == <<ngrokVars, recvVars, tunnelVars, options, pc, usePassword,
                password, ngrokUrl, tunnelOutcome, tunnelPromise, wssOpen,
                connHandler, serverTimeout, timers, now, exitCode, conn,
                simple, ports, sharedPath, debugLog>>

\* part_000:249 and 932: the HTTP servers of the two sessions are up.
HttpServe(a, b) ==
    /\ http.a = JSNull
    /\ http' = [http EXCEPT !.a = a, !.b = b]
    /\ UNCHANGED allButHttp

\* A client sends a request; both sessions answer it. `correctGiven` keeps
\* whether the client has ever given a password that is the password of one
\* of the two.
HttpRequest(pathname, enteredPassword) ==
    /\ http.a # JSNull
    /\ http' = [http EXCEPT
                  !.req = [pathname |-> pathname, password |-> enteredPassword],
                  !.respA = HttpRespond(http.a, pathname, enteredPassword),
                  !.respB = HttpRespond(http.b, pathname, enteredPassword),
                  !.correctGiven =
                      \/ @
                      \/ StrictEq(enteredPassword, http.a.password)
                      \/ StrictEq(enteredPassword, http.b.password)]
    /\ UNCHANGED allButHttp

HttpInit == SenderIdle /\ RecvIdle /\ TunnelIdle /\ NgrokIdle

HttpNext ==
    \/ \E a, b \in HttpSessions : HttpServe(a, b)
    \/ \E pathname \in HttpPaths, enteredPassword \in HttpEntered :
          HttpRequest(pathname, enteredPassword)

HttpSpec == HttpInit /\ [][HttpNext]_vars

\* C38: a client that has never given the password of either session gets
\* the same response from both, whatever it asks for: nothing of what it
\* is sent depends on the password or on the content of the file.
C38_NoSecretWithoutPassword ==
    (http.req # JSNull /\ ~http.correctGiven) => http.respA = http.respB

\* C39: when two processes have each registered or unregistered a url of
\* their own, a different one each, the registry holds every url that was
\* registered and no url that was unregistered.
C39_NoLostUpdate ==
    \A p, q \in RegProcs :
        (/\ p # q
         /\ mgr[p].pc = "done" /\ mgr[q].pc = "done"
         /\ {mgr[p].op, mgr[q].op} \subseteq {"registerTunnel", "unregisterTunnel"}
         /\ mgr[p].url # mgr[q].url)
            => /\ infoFile.text = "whole"
               /\ \A r \in {p, q} :
                     Includes(infoFile.tunnels, mgr[r].url)
                        <=> mgr[r].op = "registerTunnel"

\* ------------------------------------------------------------- ManagerSpec
\* One process and its tunnel manager, with a registry that is empty when
\* the process starts and that no other process writes.
ManagerInit == TunnelSpecInit /\ registry = <<>>

ManagerSpec == ManagerInit /\ [][TunnelNext]_vars

RegistryUrls == {registry[i] : i \in 1..Len(registry)}

SameUrls == activeTunnels = sshProcesses /\ sshProcesses = RegistryUrls

\* A closeAllTunnels call returns during whose wait for pkill a tunnel was
\* created: the call overlapped the creation.
OverlappedReturn ==
    \E i \in 1..Len(tmCall) : ~tmCall[i].quiet /\ CloseAllReturns(i)

====
